---- MODULE Spec2Model ----
(***************************************************************************)
(* Text codecs of ghp-core: the branch-link marker codec of                *)
(* src/src/branch-linker.ts and the frontmatter metadata codec of          *)
(* src/src/issue-metadata.ts, with its option parser and its merge; and    *)
(* the normalisation of project items in getProjectItems of                *)
(* src/src/github-api.ts; and the asynchronous side: authenticate() and    *)
(* the remote methods of GitHubAPI, and BranchLinker's link and unlink,    *)
(* each cut into the steps between its awaits so that calls interleave.    *)
(*                                                                         *)
(* A JavaScript string is a sequence of tokens.  A token is a TLA+ string  *)
(* that stands for exactly the characters it spells: "<!--", "ghp-branch:" *)
(* and "-->" are the three literals of BRANCH_LINK_PATTERN, "---" is the   *)
(* frontmatter delimiter, " " and "\n" are the two whitespace characters,  *)
(* ":" and "," are the separators of the frontmatter grammar, "$1", "$&",  *)
(* "$`", "$'" and "$$" are the replacement patterns of                     *)
(* String.prototype.replace, and every other token is a run of word or     *)
(* other ordinary characters.  No two adjacent tokens of the alphabets     *)
(* used here spell one of the literals across their boundary, so a regular *)
(* expression run on the token sequence behaves as it does on the string.  *)
(*                                                                         *)
(* A value that may be null or undefined is an option: None is <<>> and    *)
(* Some(s) is <<s>>.                                                       *)
(***************************************************************************)
EXTENDS Integers, Sequences, FiniteSets, TLC

VARIABLES
    text,        \* the text blob (an issue body): an option of a token sequence
    input,       \* the blob the last call was applied to
    calls,       \* the codec calls made so far, each [op, arg], oldest first
    meta,        \* the metadata handed to generateMetadataTemplate (an option)
    parsed,      \* what the last parseIssueMetadata call returned
    fromContent, \* first argument of mergeMetadata
    fromFlags,   \* second argument of mergeMetadata
    merged,      \* what mergeMetadata returned (an option: None before the call)
    optFields,   \* what parseFieldsOption returned (an option)
    graphqlWithAuth, \* whether the authenticated query function is set
    statusField, \* what getStatusField returned: an option of the option list
    rawItems,    \* response.node.items.nodes of PROJECT_ITEMS_QUERY
    fetched,     \* how getProjectItems ended (None before the call)
    onAuthError, \* whether the constructor was given an onAuthError callback
    username,    \* GitHubAPI.username (an option)
    auths,       \* the authenticate() calls: where each is and what it returned
    call,        \* the remote operation called on the GitHubAPI instance
    stored,      \* the body of the issue on the remote side (None: no issue)
    linkers,     \* the BranchLinker calls: where each is and what it holds
    writes       \* the bodies written to the issue, oldest first, with writers

codecVars == <<text, input, calls, meta, parsed>>
mergeVars == <<fromContent, fromFlags, merged, optFields>>
itemVars == <<graphqlWithAuth, statusField, rawItems, fetched>>
apiVars == <<onAuthError, username, auths, call>>
linkVars == <<stored, linkers, writes>>
vars == <<codecVars, mergeVars, itemVars, apiVars, linkVars>>

----------------------------------------------------------------------------
(* Bounds of the model. *)

\* A branch-link body is made of at most MaxChunks chunks.
MaxChunks == 3
\* At most MaxOps codec calls are made on one blob.
MaxOps == 2
\* A frontmatter text has at most MaxLines lines.
MaxLines == 4
\* A metadata record has at most MaxItems labels, assignees and fields.
MaxItems == 2
MaxPairs == 2
MaxOptions == 3
MaxRaw == 2
MaxAuth == 2
MaxErrors == 2
MaxLinkers == 2
MaxEdits == 1

----------------------------------------------------------------------------
(* Tokens and options. *)

OPEN == "<!--"
KEYW == "ghp-branch:"
CLOSE == "-->"
SP == " "
NL == "\n"
DELIM == "---"
COLON == ":"
COMMA == ","
EQ == "="

None == << >>
Some(s) == << s >>
IsNone(o) == Len(o) = 0
Val(o) == o[1]

\* JavaScript truthiness of a string | null | undefined: null, undefined and
\* the empty string are falsy.
Falsy(o) == IsNone(o) \/ Val(o) = << >>

\* \s of a JavaScript regular expression, over the tokens of the model.
IsWs(t) == t \in {SP, NL}

\* . of a JavaScript regular expression: anything but a line terminator.
IsDot(t) == t # NL

RECURSIVE Concat(_)
\* The string a sequence of pieces spells: their concatenation.
Concat(ss) == IF ss = << >> THEN << >> ELSE Head(ss) \o Concat(Tail(ss))

RECURSIVE TrimStart(_)
TrimStart(s) ==
    IF s # << >> /\ IsWs(Head(s)) THEN TrimStart(Tail(s)) ELSE s

RECURSIVE TrimEnd(_)
TrimEnd(s) ==
    IF s # << >> /\ IsWs(s[Len(s)]) THEN TrimEnd(SubSeq(s, 1, Len(s) - 1)) ELSE s

Trim(s) == TrimEnd(TrimStart(s))

RECURSIVE WsRun(_, _)
\* Length of the longest run of whitespace starting at position i: what a
\* greedy \s* consumes first.
WsRun(s, i) ==
    IF i <= Len(s) /\ IsWs(s[i]) THEN 1 + WsRun(s, i + 1) ELSE 0

----------------------------------------------------------------------------
(* BRANCH_LINK_PATTERN = /<!--\s*ghp-branch:\s*(.+?)\s*-->/                *)

NoMatch == [ok |-> FALSE, start |-> 0, cs |-> 0, ce |-> 0, end |-> 0]

\* The attempts of the backtracking matcher that succeed from position i:
\* k is what the second \s* keeps (tried from the longest down), the capture
\* (.+?) is s[cs..ce] (tried from the shortest up), and the third \s* must
\* reach a "-->".  The first \s* has no choice: "ghp-branch:" is no whitespace.
PatternAttempts(s, i) ==
    IF i > Len(s) \/ s[i] # OPEN THEN {}
    ELSE LET j == i + 1 + WsRun(s, i + 1)
         IN  IF j > Len(s) \/ s[j] # KEYW THEN {}
             ELSE LET w == WsRun(s, j + 1)
                  IN  { a \in (0 .. w) \X ((j + 1) .. Len(s)) :
                          LET cs == j + 1 + a[1]
                              ce == a[2]
                              e  == ce + 1 + WsRun(s, ce + 1)
                          IN  /\ cs <= ce
                              /\ \A p \in cs .. ce : IsDot(s[p])
                              /\ e <= Len(s)
                              /\ s[e] = CLOSE }

\* The match the engine reports from position i: the longest second \s*,
\* then the shortest capture.
PatternMatchAt(s, i) ==
    LET as == PatternAttempts(s, i)
    IN  IF as = {} THEN NoMatch
        ELSE LET a == CHOOSE x \in as :
                        \A y \in as : \/ y[1] < x[1]
                                      \/ (y[1] = x[1] /\ y[2] >= x[2])
                 j == i + 1 + WsRun(s, i + 1)
             IN  [ok |-> TRUE, start |-> i, cs |-> j + 1 + a[1], ce |-> a[2],
                  end |-> a[2] + 1 + WsRun(s, a[2] + 1)]

RECURSIVE PatternSearch(_, _)
\* The leftmost match at or after position i.
PatternSearch(s, i) ==
    IF i > Len(s) THEN NoMatch
    ELSE LET m == PatternMatchAt(s, i)
         IN  IF m.ok THEN m ELSE PatternSearch(s, i + 1)

\* BRANCH_LINK_PATTERN.exec(s): the pattern has no g flag, so every search
\* starts at the beginning.
BRANCH_LINK_PATTERN(s) == PatternSearch(s, 1)

RECURSIVE ExpandReplacement(_, _, _)
\* The replacement string of String.prototype.replace(regexp, string): $$ is a
\* dollar, $& the match, $1 the first group, $` and $' the text before and
\* after the match.
ExpandReplacement(repl, s, m) ==
    IF repl = << >> THEN << >>
    ELSE LET t == Head(repl)
             x == CASE t = "$$" -> << "$" >>
                    [] t = "$&" -> SubSeq(s, m.start, m.end)
                    [] t = "$1" -> SubSeq(s, m.cs, m.ce)
                    [] t = "$`" -> SubSeq(s, 1, m.start - 1)
                    [] t = "$'" -> SubSeq(s, m.end + 1, Len(s))
                    [] OTHER    -> << t >>
         IN  x \o ExpandReplacement(Tail(repl), s, m)

\* s.replace(BRANCH_LINK_PATTERN, repl): the first match only.
ReplacePattern(s, repl) ==
    LET m == BRANCH_LINK_PATTERN(s)
    IN  IF ~m.ok THEN s
        ELSE SubSeq(s, 1, m.start - 1) \o ExpandReplacement(repl, s, m)
                 \o SubSeq(s, m.end + 1, Len(s))

----------------------------------------------------------------------------
(* src/src/branch-linker.ts *)

parseBranchLink(body) ==
    IF Falsy(body) THEN None
    ELSE LET m == BRANCH_LINK_PATTERN(Val(body))
         IN  IF m.ok THEN Some(Trim(SubSeq(Val(body), m.cs, m.ce))) ELSE None

\* `<!-- ghp-branch: ${branch} -->`
BranchTag(branch) == << OPEN, SP, KEYW, SP >> \o branch \o << SP, CLOSE >>

\* A set that puts a new marker in front of the body instead of after it.
setBranchLinkInBody_prepend(body, branch) ==
    LET currentBody == IF Falsy(body) THEN << >> ELSE Val(body)
        tag == BranchTag(branch)
    IN  IF BRANCH_LINK_PATTERN(currentBody).ok
        THEN ReplacePattern(currentBody, tag)
        ELSE tag \o << NL, NL >> \o Trim(currentBody)

setBranchLinkInBody(body, branch) ==
    LET currentBody == IF Falsy(body) THEN << >> ELSE Val(body)
        tag == BranchTag(branch)
    IN  IF BRANCH_LINK_PATTERN(currentBody).ok
        THEN ReplacePattern(currentBody, tag)
        ELSE Trim(currentBody) \o << NL, NL >> \o tag

\* A removal that forgets the trim().
removeBranchLinkFromBody_noTrim(body) ==
    IF Falsy(body) THEN << >>
    ELSE ReplacePattern(Val(body), << >>)

removeBranchLinkFromBody(body) ==
    IF Falsy(body) THEN << >>
    ELSE Trim(ReplacePattern(Val(body), << >>))

----------------------------------------------------------------------------
(* src/src/issue-metadata.ts *)

\* \w of a JavaScript regular expression: the tokens made of letters, digits
\* and underscores only.
WordTokens ==
    {"labels", "Labels", "assignees", "ASSIGNEES", "type", "Type", "Priority",
     "priority", "Size", "__proto__", "bug", "urgent", "al", "bo", "Feature",
     "High", "xs", "Body", "text", "more", "x", "a", "Story", "Points"}

IsWord(t) == t \in WordTokens

\* String.prototype.toLowerCase, token by token.
ToLowerCase(t) ==
    CASE t = "Labels"    -> "labels"
      [] t = "ASSIGNEES" -> "assignees"
      [] t = "Type"      -> "type"
      [] t = "Priority"  -> "priority"
      [] t = "Size"      -> "size"
      [] t = "Feature"   -> "feature"
      [] t = "High"      -> "high"
      [] t = "Body"      -> "body"
      [] t = "Story"     -> "story"
      [] t = "Points"    -> "points"
      [] t = "Todo"      -> "todo"
      [] t = "TODO"      -> "todo"
      [] t = "Done"      -> "done"
      [] t = "Doing"     -> "doing"
      [] t = "Blocked"   -> "blocked"
      [] OTHER           -> t

LowerCase(s) == [i \in 1 .. Len(s) |-> ToLowerCase(s[i])]

RECURSIVE Split(_, _)
\* String.prototype.split(sep) for a one-character separator: always at
\* least one piece.
Split(s, sep) ==
    IF \A i \in 1 .. Len(s) : s[i] # sep THEN << s >>
    ELSE LET i == CHOOSE p \in 1 .. Len(s) :
                     s[p] = sep /\ \A q \in 1 .. (p - 1) : s[q] # sep
         IN  << SubSeq(s, 1, i - 1) >> \o Split(SubSeq(s, i + 1, Len(s)), sep)

RECURSIVE Join(_, _)
\* Array.prototype.join(sep).
Join(ss, sep) ==
    IF ss = << >> THEN << >>
    ELSE IF Len(ss) = 1 THEN ss[1]
    ELSE ss[1] \o sep \o Join(Tail(ss), sep)

RECURSIVE FilterNonEmpty(_)
\* Array.prototype.filter(Boolean) on strings: the empty string is dropped.
FilterNonEmpty(ss) ==
    IF ss = << >> THEN << >>
    ELSE IF Head(ss) = << >> THEN FilterNonEmpty(Tail(ss))
    ELSE << Head(ss) >> \o FilterNonEmpty(Tail(ss))

\* value.split(',').map(x => x.trim()).filter(Boolean)
SplitList(value) ==
    LET parts == Split(value, COMMA)
    IN  FilterNonEmpty([i \in 1 .. Len(parts) |-> Trim(parts[i])])

\* fields is a JavaScript object used as a map: a sequence of entries in
\* insertion order.  Assigning an existing key keeps its place; assigning a
\* string to the key __proto__ of an object literal reaches the setter of
\* Object.prototype, which ignores a value that is no object, so no entry is
\* made.
SetField(fields, key, value) ==
    IF key = << "__proto__" >> THEN fields
    ELSE IF \E i \in 1 .. Len(fields) : fields[i].key = key
    THEN [i \in 1 .. Len(fields) |->
            IF fields[i].key = key THEN [key |-> key, value |-> value]
            ELSE fields[i]]
    ELSE Append(fields, [key |-> key, value |-> value])

EmptyMetadata ==
    [labels |-> << >>, assignees |-> << >>, type |-> None, fields |-> << >>]

NoLine == [ok |-> FALSE, key |-> << >>, value |-> << >>]

\* line.match(/^(\w+):\s*(.+)$/) on a line that holds no "\n": the key is the
\* run of word characters the line starts with, a ":" follows, and the value
\* is what is left after the whitespace; when only whitespace is left the
\* greedy \s* gives its last character back to (.+).
LineMatch(line) ==
    LET RECURSIVE WordRun(_)
        WordRun(i) == IF i <= Len(line) /\ IsWord(line[i])
                      THEN 1 + WordRun(i + 1) ELSE 0
        n == WordRun(1)
    IN  IF n = 0 \/ n + 1 > Len(line) \/ line[n + 1] # COLON THEN NoLine
        ELSE LET rest == SubSeq(line, n + 2, Len(line))
                 w == WsRun(rest, 1)
             IN  IF rest = << >> THEN NoLine
                 ELSE [ok |-> TRUE,
                       key |-> SubSeq(line, 1, n),
                       value |-> IF w < Len(rest)
                                 THEN SubSeq(rest, w + 1, Len(rest))
                                 ELSE SubSeq(rest, Len(rest), Len(rest))]

\* One turn of the loop over the frontmatter lines.
ApplyLine(metadata, line) ==
    LET match == LineMatch(line)
        keyLower == LowerCase(match.key)
    IN  IF ~match.ok THEN metadata
        ELSE IF keyLower = << "labels" >>
        THEN [metadata EXCEPT !.labels = SplitList(match.value)]
        ELSE IF keyLower = << "assignees" >>
        THEN [metadata EXCEPT !.assignees = SplitList(match.value)]
        ELSE IF keyLower = << "type" >>
        THEN [metadata EXCEPT !.type = Some(Trim(match.value))]
        ELSE [metadata EXCEPT
                !.fields = SetField(@, match.key, Trim(match.value))]

RECURSIVE ApplyLines(_, _)
ApplyLines(metadata, lines) ==
    IF lines = << >> THEN metadata
    ELSE ApplyLines(ApplyLine(metadata, Head(lines)), Tail(lines))

NoFrontmatter == [ok |-> FALSE, frontmatter |-> << >>, body |-> << >>]

\* trimmed.match(/^---\n([\s\S]*?)\n---\n?([\s\S]*)$/): the text starts with
\* "---\n", the block ends at the first later "\n---", one "\n" after it is
\* skipped, and the rest is the body.
FrontmatterMatch(trimmed) ==
    LET n == Len(trimmed)
        closes == {j \in 3 .. (n - 1) : trimmed[j] = NL /\ trimmed[j + 1] = DELIM}
    IN  IF n < 2 \/ trimmed[1] # DELIM \/ trimmed[2] # NL \/ closes = {}
        THEN NoFrontmatter
        ELSE LET j == CHOOSE c \in closes : \A d \in closes : c <= d
                 b == IF j + 2 <= n /\ trimmed[j + 2] = NL THEN j + 3 ELSE j + 2
             IN  [ok |-> TRUE,
                  frontmatter |-> SubSeq(trimmed, 3, j - 1),
                  body |-> SubSeq(trimmed, b, n)]

parseIssueMetadata(content) ==
    LET trimmed == TrimStart(content)
        frontmatterMatch == FrontmatterMatch(trimmed)
    IN  IF ~frontmatterMatch.ok
        THEN [metadata |-> EmptyMetadata, body |-> content]
        ELSE [metadata |-> ApplyLines(EmptyMetadata,
                                      Split(frontmatterMatch.frontmatter, NL)),
              body |-> Trim(frontmatterMatch.body)]

\* existingMetadata?.labels?.length and its like: an absent record, an absent
\* property and an empty list are all falsy.
Present(existingMetadata, f) ==
    /\ ~IsNone(existingMetadata)
    /\ ~IsNone(Val(existingMetadata)[f])
    /\ Val(Val(existingMetadata)[f]) # << >>

\* One own property of an object literal or spread result: defined, never
\* assigned, so every key is kept.
DefineField(fields, key, value) ==
    IF \E i \in 1 .. Len(fields) : fields[i].key = key
    THEN [i \in 1 .. Len(fields) |->
            IF fields[i].key = key THEN [key |-> key, value |-> value]
            ELSE fields[i]]
    ELSE Append(fields, [key |-> key, value |-> value])

RECURSIVE Spread(_, _)
\* { ...target, ...source }
Spread(target, source) ==
    IF source = << >> THEN target
    ELSE Spread(DefineField(target, Head(source).key, Head(source).value),
                Tail(source))

\* Object spread of a property that may be undefined.
SpreadOpt(target, source) ==
    IF IsNone(source) THEN target ELSE Spread(target, Val(source))

\* fromFlags.labels?.length, fromFlags.assignees?.length
HasLength(list) == ~IsNone(list) /\ Len(Val(list)) # 0

\* mergeMetadata with ?? in place of the length test on the two lists.
mergeMetadata_nullishLists(content, flags) ==
    [labels |-> IF ~IsNone(flags.labels) THEN Val(flags.labels)
                ELSE content.labels,
     assignees |-> IF ~IsNone(flags.assignees) THEN Val(flags.assignees)
                   ELSE content.assignees,
     type |-> IF ~IsNone(flags.type) THEN flags.type ELSE content.type,
     fields |-> SpreadOpt(Spread(<< >>, content.fields), flags.fields)]

\* mergeMetadata with || in place of ?? on the type.
mergeMetadata_truthyType(content, flags) ==
    [labels |-> IF HasLength(flags.labels) THEN Val(flags.labels)
                ELSE content.labels,
     assignees |-> IF HasLength(flags.assignees) THEN Val(flags.assignees)
                   ELSE content.assignees,
     type |-> IF ~Falsy(flags.type) THEN flags.type ELSE content.type,
     fields |-> SpreadOpt(Spread(<< >>, content.fields), flags.fields)]

\* mergeMetadata with the two spreads in the other order.
mergeMetadata_contentLast(content, flags) ==
    [labels |-> IF HasLength(flags.labels) THEN Val(flags.labels)
                ELSE content.labels,
     assignees |-> IF HasLength(flags.assignees) THEN Val(flags.assignees)
                   ELSE content.assignees,
     type |-> IF ~IsNone(flags.type) THEN flags.type ELSE content.type,
     fields |-> Spread(SpreadOpt(<< >>, flags.fields), content.fields)]

\* mergeMetadata(fromContent, fromFlags): content is an IssueMetadata, flags
\* a Partial<IssueMetadata> whose properties are options.
mergeMetadata(content, flags) ==
    [labels |-> IF HasLength(flags.labels) THEN Val(flags.labels)
                ELSE content.labels,
     assignees |-> IF HasLength(flags.assignees) THEN Val(flags.assignees)
                   ELSE content.assignees,
     type |-> IF ~IsNone(flags.type) THEN flags.type ELSE content.type,
     fields |-> SpreadOpt(Spread(<< >>, content.fields), flags.fields)]

RECURSIVE AssignPairs(_, _)
\* The loop of parseFieldsOption over the comma-separated pairs.
AssignPairs(fields, pairs) ==
    IF pairs = << >> THEN fields
    ELSE LET parts == Split(Head(pairs), EQ)
             key == parts[1]
             valueParts == Tail(parts)
         IN  AssignPairs(
                 IF key # << >> /\ Len(valueParts) > 0
                 THEN SetField(fields, Trim(key),
                               Trim(Join(valueParts, << EQ >>)))
                 ELSE fields,
                 Tail(pairs))

parseFieldsOption(fieldsStr) == AssignPairs(<< >>, Split(fieldsStr, COMMA))

\* generateMetadataTemplate with the type line left out when there is no type
\* to show.
generateMetadataTemplate_optionalType(existingMetadata) ==
    LET m == Val(existingMetadata)
        labelsLine == IF Present(existingMetadata, "labels")
            THEN << "labels", COLON, SP >> \o Join(Val(m.labels), << COMMA, SP >>)
            ELSE << "labels", COLON, SP >>
        assigneesLine == IF Present(existingMetadata, "assignees")
            THEN << "assignees", COLON, SP >>
                     \o Join(Val(m.assignees), << COMMA, SP >>)
            ELSE << "assignees", COLON, SP >>
        typeLines == IF Present(existingMetadata, "type")
            THEN << << "type", COLON, SP >> \o Val(m.type) >>
            ELSE << >>
        fieldLines == IF ~IsNone(existingMetadata) /\ ~IsNone(m.fields)
            THEN [i \in 1 .. Len(Val(m.fields)) |->
                    Val(m.fields)[i].key \o << COLON, SP >> \o Val(m.fields)[i].value]
            ELSE << >>
    IN  Join(<< << DELIM >>, labelsLine, assigneesLine >> \o typeLines
                 \o fieldLines \o << << DELIM >> >>, << NL >>)

\* existingMetadata is an option of a Partial<IssueMetadata>, each of whose
\* properties is an option.
generateMetadataTemplate(existingMetadata) ==
    LET m == Val(existingMetadata)
        labelsLine ==
            IF Present(existingMetadata, "labels")
            THEN << "labels", COLON, SP >> \o Join(Val(m.labels), << COMMA, SP >>)
            ELSE << "labels", COLON, SP >>
        assigneesLine ==
            IF Present(existingMetadata, "assignees")
            THEN << "assignees", COLON, SP >> \o Join(Val(m.assignees), << COMMA, SP >>)
            ELSE << "assignees", COLON, SP >>
        typeLine ==
            IF Present(existingMetadata, "type")
            THEN << "type", COLON, SP >> \o Val(m.type)
            ELSE << "type", COLON, SP >>
        fieldLines ==
            IF ~IsNone(existingMetadata) /\ ~IsNone(m.fields)
            THEN [i \in 1 .. Len(Val(m.fields)) |->
                    Val(m.fields)[i].key \o << COLON, SP >> \o Val(m.fields)[i].value]
            ELSE << >>
    IN  Join(<< << DELIM >>, labelsLine, assigneesLine, typeLine >>
                 \o fieldLines \o << << DELIM >> >>, << NL >>)

----------------------------------------------------------------------------
(* The inputs. *)

SeqsUpTo(S, n) == UNION {[1 .. k -> S] : k \in 0 .. n}

\* The pieces a body is made of: the three literals of the marker on their
\* own, whitespace, ordinary text, and a well-formed marker.
LinkChunks ==
    {<< OPEN >>, << KEYW >>, << CLOSE >>, << SP >>, << NL >>, << "x" >>,
     BranchTag(<< "a" >>)}

LinkBodies == {Concat(cs) : cs \in SeqsUpTo(LinkChunks, MaxChunks)}

\* Branch names: two plain ones and one that holds the characters "$1"
\* (git allows "$" in a ref name).
Branches == {<< "feature/x" >>, << "main" >>, << "rel", "$1" >>}

\* The lines a frontmatter text is made of: the delimiter, a delimiter with
\* text after it, an empty line, label, assignee, type and field lines in
\* several casings and spacings, and a line of plain text.
MetaLines ==
    {<< DELIM >>,
     << DELIM, "more" >>,
     << >>,
     << "labels", COLON, SP, "bug", COMMA, SP, "urgent" >>,
     << "ASSIGNEES", COLON, "al", COMMA, COMMA, SP, "bo", SP >>,
     << "Type", COLON, SP, SP, "Feature" >>,
     << "type", COLON, SP >>,
     << "Priority", COLON, SP, "High" >>,
     << "priority", COLON, SP, "xs" >>,
     << "__proto__", COLON, SP, "x" >>,
     << "Body", SP, "text" >>}

MetaTexts == {Join(ls, << NL >>) : ls \in SeqsUpTo(MetaLines, MaxLines)}

\* The lines of a text that holds both a frontmatter block and a marker: the
\* delimiter, a labels line, a marker on a line of its own, a labels line whose
\* value is a marker, plain text and an empty line.
BothLines ==
    {<< DELIM >>,
     << "labels", COLON, SP, "bug" >>,
     BranchTag(<< "a" >>),
     << "labels", COLON, SP >> \o BranchTag(<< "a" >>),
     << "Body", SP, "text" >>,
     << >>}

BothTexts == {Join(ls, << NL >>) : ls \in SeqsUpTo(BothLines, MaxLines)}

\* Metadata with every property populated: label and assignee names, a type,
\* and project fields named as on the remote side ("Story Points" is one).
LabelNames == {<< "bug" >>, << "good", SP, "first" >>}
AssigneeNames == {<< "al" >>, << "bo" >>}
TypeNames == {<< "Feature" >>, << "Bug", SP, "report" >>}
FieldNames == {<< "Priority" >>, << "Story", SP, "Points" >>}
FieldValues == {<< "High" >>, << "xs" >>}

FieldMaps ==
    {f \in SeqsUpTo([key : FieldNames, value : FieldValues], MaxItems) :
        \A i, j \in 1 .. Len(f) : f[i].key = f[j].key => i = j}

PopulatedMetas ==
    {Some([labels |-> Some(l), assignees |-> Some(a), type |-> Some(t),
           fields |-> Some(f)]) :
        l \in SeqsUpTo(LabelNames, MaxItems) \ {<< >>},
        a \in SeqsUpTo(AssigneeNames, MaxItems) \ {<< >>},
        t \in TypeNames,
        f \in FieldMaps}

NotParsed == [metadata |-> EmptyMetadata, body |-> << >>]

\* No mergeMetadata or parseFieldsOption call is under way.
MergeIdle ==
    /\ fromContent = EmptyMetadata
    /\ fromFlags = None
    /\ merged = None
    /\ optFields = None

\* The GitHubAPI instance as constructed, with no call made on it.
ApiIdle ==
    /\ onAuthError = FALSE
    /\ username = None
    /\ auths = << >>
    /\ call = [pc |-> "none"]

\* No BranchLinker call is under way.
LinkIdle ==
    /\ stored = None
    /\ linkers = << >>
    /\ writes = << >>

\* No getProjectItems call is under way.
ItemsIdle ==
    /\ graphqlWithAuth = FALSE
    /\ statusField = None
    /\ rawItems = << >>
    /\ fetched = None

Last == calls[Len(calls)]
LastOp == IF calls = << >> THEN "init" ELSE Last.op

----------------------------------------------------------------------------
(* The calls a consumer makes on one blob. *)

\* text = setBranchLinkInBody(text, branch)
SetLink(branch) ==
    /\ Len(calls) < MaxOps
    /\ text' = Some(setBranchLinkInBody(text, branch))
    /\ input' = text
    /\ calls' = Append(calls, [op |-> "set", arg |-> branch])
    /\ UNCHANGED <<meta, parsed, mergeVars, itemVars, apiVars, linkVars>>

\* text = removeBranchLinkFromBody(text)
RemoveLink ==
    /\ Len(calls) < MaxOps
    /\ text' = Some(removeBranchLinkFromBody(text))
    /\ input' = text
    /\ calls' = Append(calls, [op |-> "remove", arg |-> << >>])
    /\ UNCHANGED <<meta, parsed, mergeVars, itemVars, apiVars, linkVars>>

InitLink ==
    /\ text \in {None} \cup {Some(b) : b \in LinkBodies}
    /\ input = text
    /\ calls = << >>
    /\ meta = None
    /\ parsed = NotParsed
    /\ MergeIdle
    /\ ItemsIdle
    /\ ApiIdle
    /\ LinkIdle

NextLink == (\E b \in Branches : SetLink(b)) \/ RemoveLink

\* The branch-link codec applied to one body, call after call.
SpecLink == InitLink /\ [][NextLink]_vars

----------------------------------------------------------------------------
(* Claims about the branch-link codec. *)

RECURSIVE CountFrom(_, _)
CountFrom(s, i) ==
    LET m == PatternSearch(s, i)
    IN  IF m.ok THEN 1 + CountFrom(s, m.end + 1) ELSE 0

\* The number of branch-link markers in s: the matches of the pattern, one
\* after the other.
CountMarkers(s) == CountFrom(s, 1)

\* The string a string | null | undefined stands for (body || '').
Str(o) == IF IsNone(o) THEN << >> ELSE Val(o)

\* C1: after setBranchLinkInBody(body, branch), parseBranchLink of the result
\* returns branch, whatever the body was.
C1_ParseAfterSet ==
    LastOp = "set" => parseBranchLink(text) = Some(Last.arg)

\* C2: two setBranchLinkInBody calls with different branch names leave
\* exactly one marker, and it names the second branch.
C2_TwoSetsOneMarker ==
    (/\ Len(calls) >= 2
     /\ calls[Len(calls) - 1].op = "set"
     /\ Last.op = "set"
     /\ calls[Len(calls) - 1].arg # Last.arg)
        => /\ CountMarkers(Str(text)) = 1
           /\ parseBranchLink(text) = Some(Last.arg)

\* C3: after any sequence of set and remove calls the body holds at most one
\* marker, and exactly one right after a set call.
C3_SingleOccurrence ==
    calls # << >>
        => /\ CountMarkers(Str(text)) <= 1
           /\ (Last.op = "set" => CountMarkers(Str(text)) = 1)

\* C4: setBranchLinkInBody replaces an existing marker in place by the freshly
\* formatted marker, the text before and after it unchanged; with no marker it
\* returns the trimmed body, a blank line and the marker.
C4_SetInPlace ==
    LastOp = "set"
        => LET old == Str(input)
               m == BRANCH_LINK_PATTERN(old)
           IN  IF m.ok
               THEN Str(text) = SubSeq(old, 1, m.start - 1)
                                    \o BranchTag(Last.arg)
                                    \o SubSeq(old, m.end + 1, Len(old))
               ELSE Str(text) = Trim(old) \o << NL, NL >> \o BranchTag(Last.arg)

\* C5: removeBranchLinkFromBody returns the text before the marker followed by
\* the text after it, trimmed; the trimmed body when there is no marker; the
\* empty string for an absent body.
C5_RemoveOnlyMarker ==
    LastOp = "remove"
        => LET old == Str(input)
               m == BRANCH_LINK_PATTERN(old)
           IN  /\ IsNone(input) => Str(text) = << >>
               /\ ~m.ok => Str(text) = Trim(old)
               /\ m.ok => Str(text) = Trim(SubSeq(old, 1, m.start - 1)
                                             \o SubSeq(old, m.end + 1, Len(old)))

\* C5: a marker with text on both sides, one end of it whitespace, was removed.
C5_Witness ==
    /\ LastOp = "remove"
    /\ LET old == Str(input)
           m == BRANCH_LINK_PATTERN(old)
       IN  /\ m.ok
           /\ m.start > 1
           /\ m.end < Len(old)
           /\ IsWs(old[1]) \/ IsWs(old[Len(old)])
           /\ Str(text) # << >>

----------------------------------------------------------------------------
(* The frontmatter codec applied to one text. *)

\* parsed = parseIssueMetadata(text)
Parse ==
    /\ Len(calls) < MaxOps
    /\ ~IsNone(text)
    /\ LastOp # "parse"
    /\ parsed' = parseIssueMetadata(Val(text))
    /\ input' = text
    /\ calls' = Append(calls, [op |-> "parse", arg |-> << >>])
    /\ UNCHANGED <<text, meta, mergeVars, itemVars, apiVars, linkVars>>

InitMeta ==
    /\ text \in {Some(t) : t \in MetaTexts}
    /\ input = text
    /\ calls = << >>
    /\ meta = None
    /\ parsed = NotParsed
    /\ MergeIdle
    /\ ItemsIdle
    /\ ApiIdle
    /\ LinkIdle

NextMeta == Parse

SpecMeta == InitMeta /\ [][NextMeta]_vars

----------------------------------------------------------------------------
(* Claims about parseIssueMetadata. *)

\* The lines of the left-trimmed text.
LinesOf(t) == Split(TrimStart(t), NL)

\* The frontmatter grammar of the format: the left-trimmed text starts with a
\* line that is exactly "---" and a later line is exactly "---".
StartsWithBlock(t) ==
    LET ls == LinesOf(t)
    IN  /\ Len(ls) >= 2
        /\ ls[1] = << DELIM >>
        /\ \E k \in 2 .. Len(ls) : ls[k] = << DELIM >>

PassedThrough(t) == parsed = [metadata |-> EmptyMetadata, body |-> t]

\* C7: a text that does not start with a delimited block comes back as the
\* body, untrimmed, with empty metadata.
C7_NoBlockPassThrough ==
    LastOp = "parse"
        => (~StartsWithBlock(Val(input)) => PassedThrough(Val(input)))

\* A line that starts with "---" and goes on: no delimiter line.
InexactDelim(line) == Len(line) >= 2 /\ line[1] = DELIM

\* C8: a block is detected only when it opens with a line that is exactly
\* "---" and is closed by a later line that is exactly "---"; a "---" with
\* more characters after it on its line closes nothing.
C8_ExactDelimiters ==
    LastOp = "parse"
        => LET t == Val(input)
               ls == LinesOf(t)
           IN  /\ FrontmatterMatch(TrimStart(t)).ok => StartsWithBlock(t)
               /\ (/\ Len(ls) >= 2
                   /\ ls[1] = << DELIM >>
                   /\ \E k \in 2 .. Len(ls) : InexactDelim(ls[k])
                   /\ \A k \in 2 .. Len(ls) : ls[k] # << DELIM >>)
                      => PassedThrough(t)

\* The first line after the opening one that starts with "---".
CloseLine(ls) ==
    CHOOSE k \in 2 .. Len(ls) :
        /\ ls[k] # << >> /\ ls[k][1] = DELIM
        /\ \A j \in 2 .. (k - 1) : ls[j] = << >> \/ ls[j][1] # DELIM

\* A text with a block on which the format and the parser agree: it opens
\* with an exact "---" line, holds at least one line, and the first line
\* after the opening that starts with "---" is an exact "---" line.
HasPlainBlock(t) ==
    LET ls == LinesOf(t)
    IN  /\ Len(ls) >= 3
        /\ ls[1] = << DELIM >>
        /\ \E k \in 3 .. Len(ls) : ls[k] # << >> /\ ls[k][1] = DELIM
        /\ ls[2] = << >> \/ ls[2][1] # DELIM
        /\ ls[CloseLine(ls)] = << DELIM >>

\* The number of characters before the first ":" of a line (0 when it has none).
ColonAt(line) ==
    IF \E i \in 1 .. Len(line) : line[i] = COLON
    THEN CHOOSE i \in 1 .. Len(line) :
             line[i] = COLON /\ \A j \in 1 .. (i - 1) : line[j] # COLON
    ELSE 0

\* The `key: value` shape: a key of word characters, a colon, and a value that
\* is the non-empty rest of the line.
IsKeyValue(line) ==
    LET c == ColonAt(line)
    IN  /\ c >= 2
        /\ c < Len(line)
        /\ \A i \in 1 .. (c - 1) : IsWord(line[i])

KeyOf(line) == SubSeq(line, 1, ColonAt(line) - 1)
RestOf(line) == SubSeq(line, ColonAt(line) + 1, Len(line))

Reserved == {<< "labels" >>, << "assignees" >>, << "type" >>}

\* The block's lines (by index in ls) of the key: value shape whose key,
\* lower-cased, is name.
LinesNamed(ls, name) ==
    {j \in 2 .. (CloseLine(ls) - 1) :
        IsKeyValue(ls[j]) /\ LowerCase(KeyOf(ls[j])) = name}

\* The block's lines of the key: value shape whose key is exactly key.
LinesKeyed(ls, key) ==
    {j \in 2 .. (CloseLine(ls) - 1) : IsKeyValue(ls[j]) /\ KeyOf(ls[j]) = key}

MaxOf(S) == CHOOSE x \in S : \A y \in S : y <= x

\* C9: in a detected block labels and assignees lines (in any casing) give the
\* comma-split, trimmed, empty-filtered list, a type line gives the trimmed
\* scalar, every other key: value line is stored in fields under its key as
\* written with the trimmed value, no other line changes anything, and the
\* body is the trimmed text after the closing delimiter.
C9_Classification ==
    (LastOp = "parse" /\ HasPlainBlock(Val(input)))
        => LET ls == LinesOf(Val(input))
               k == CloseLine(ls)
               m == parsed.metadata
               ListOf(name) ==
                   IF LinesNamed(ls, name) = {} THEN << >>
                   ELSE SplitList(RestOf(ls[MaxOf(LinesNamed(ls, name))]))
               others == {j \in 2 .. (k - 1) :
                            /\ IsKeyValue(ls[j])
                            /\ LowerCase(KeyOf(ls[j])) \notin Reserved}
           IN  /\ m.labels = ListOf(<< "labels" >>)
               /\ m.assignees = ListOf(<< "assignees" >>)
               /\ m.type = IF LinesNamed(ls, << "type" >>) = {} THEN None
                           ELSE Some(Trim(RestOf(
                                    ls[MaxOf(LinesNamed(ls, << "type" >>))])))
               /\ \A j \in others :
                     \E i \in 1 .. Len(m.fields) :
                        /\ m.fields[i].key = KeyOf(ls[j])
                        /\ m.fields[i].value =
                              Trim(RestOf(ls[MaxOf(LinesKeyed(ls, KeyOf(ls[j])))]))
               /\ \A i \in 1 .. Len(m.fields) :
                     \E j \in others : KeyOf(ls[j]) = m.fields[i].key
               /\ parsed.body = Trim(Join(SubSeq(ls, k + 1, Len(ls)), << NL >>))

\* C9, with the key __proto__ set aside: every other line is classified as
\* the claim says.
C9_ClassificationButProto ==
    (\A j \in 1 .. Len(LinesOf(Str(input))) :
        LinesOf(Str(input))[j] = << >> \/ LinesOf(Str(input))[j][1] # "__proto__")
        => C9_Classification

----------------------------------------------------------------------------
(* Both codecs on one blob. *)

InitBoth ==
    /\ text \in {Some(t) : t \in BothTexts}
    /\ input = text
    /\ calls = << >>
    /\ meta = None
    /\ parsed = NotParsed
    /\ MergeIdle
    /\ ItemsIdle
    /\ ApiIdle
    /\ LinkIdle

\* The branch-link codec applied to a text that may hold a frontmatter block.
SpecBoth == InitBoth /\ [][NextLink]_vars

\* A line that is a branch-link marker and nothing else.
IsMarkerLine(line) ==
    LET m == BRANCH_LINK_PATTERN(line)
    IN  m.ok /\ m.start = 1 /\ m.end = Len(line)

\* C6: setting or removing the branch link leaves the metadata that
\* parseIssueMetadata extracts unchanged, and a marker on a line of its own
\* inside the frontmatter block is never recorded.
C6_CodecsIndependent ==
    /\ LastOp \in {"set", "remove"}
          => parseIssueMetadata(Str(text)).metadata
                 = parseIssueMetadata(Str(input)).metadata
    /\ LET fm == FrontmatterMatch(TrimStart(Str(text)))
           ls == Split(fm.frontmatter, NL)
       IN  fm.ok => \A i \in 1 .. Len(ls) :
                        IsMarkerLine(ls[i]) => ~LineMatch(ls[i]).ok

\* The text has a frontmatter block and its first marker starts after the
\* block's closing delimiter.
MarkerInBody(t) ==
    LET trimmed == TrimStart(t)
        fm == FrontmatterMatch(trimmed)
        m == BRANCH_LINK_PATTERN(t)
        closeAt == (Len(t) - Len(trimmed)) + Len(fm.frontmatter) + 4
    IN  fm.ok /\ m.ok /\ m.start > closeAt

\* C6, amended: for a text with no marker, or whose first marker starts after
\* the closing delimiter of the block parseIssueMetadata detects, setting or
\* removing the branch link leaves the extracted metadata unchanged; and a
\* marker on a line of its own inside the block is never recorded.
C6_CodecsIndependentOutsideBlock ==
    /\ (/\ LastOp \in {"set", "remove"}
        /\ \/ ~BRANCH_LINK_PATTERN(Str(input)).ok
           \/ MarkerInBody(Str(input)))
          => parseIssueMetadata(Str(text)).metadata
                 = parseIssueMetadata(Str(input)).metadata
    /\ LET fm == FrontmatterMatch(TrimStart(Str(text)))
           ls == Split(fm.frontmatter, NL)
       IN  fm.ok => \A i \in 1 .. Len(ls) :
                        IsMarkerLine(ls[i]) => ~LineMatch(ls[i]).ok

\* C6: a link was set on a text that had labels in its block and no marker,
\* and the labels are still extracted.
C6_Witness ==
    /\ LastOp = "set"
    /\ ~BRANCH_LINK_PATTERN(Str(input)).ok
    /\ parseIssueMetadata(Str(input)).metadata.labels # << >>
    /\ parseIssueMetadata(Str(text)).metadata.labels # << >>
    /\ parseBranchLink(text) = Some(Last.arg)

----------------------------------------------------------------------------
(* Template generation and the round trip. *)

\* text = generateMetadataTemplate(meta)
Generate ==
    /\ calls = << >>
    /\ Len(calls) < MaxOps
    /\ text' = Some(generateMetadataTemplate(meta))
    /\ input' = text
    /\ calls' = Append(calls, [op |-> "generate", arg |-> << >>])
    /\ UNCHANGED <<meta, parsed, mergeVars, itemVars, apiVars, linkVars>>

InitRound ==
    /\ text = None
    /\ input = None
    /\ calls = << >>
    /\ meta \in PopulatedMetas
    /\ parsed = NotParsed
    /\ MergeIdle
    /\ ItemsIdle
    /\ ApiIdle
    /\ LinkIdle

NextRound == Generate \/ Parse

SpecRound == InitRound /\ [][NextRound]_vars

\* The IssueMetadata a fully populated Partial<IssueMetadata> denotes.
Full(m) ==
    [labels |-> Val(m.labels), assignees |-> Val(m.assignees),
     type |-> m.type, fields |-> Val(m.fields)]

\* An IssueMetadata passed where a Partial<IssueMetadata> is expected.
AsPartial(m) ==
    Some([labels |-> Some(m.labels), assignees |-> Some(m.assignees),
          type |-> m.type, fields |-> Some(m.fields)])

\* C10: parsing the template generated from fully populated metadata gives
\* that metadata back, and generating from the parsed metadata gives the
\* same template.
C10_RoundTrip ==
    (Len(calls) = 2 /\ calls[1].op = "generate" /\ calls[2].op = "parse")
        => /\ parsed.metadata = Full(Val(meta))
           /\ generateMetadataTemplate(AsPartial(parsed.metadata)) = Val(text)

----------------------------------------------------------------------------
(* Template generation from any argument. *)

\* The arguments generateMetadataTemplate is called with: undefined, and
\* records whose properties are each absent, empty or filled.
PartialMetas ==
    {None} \cup
    {Some([labels |-> l, assignees |-> a, type |-> t, fields |-> f]) :
        l \in {None} \cup {Some(x) : x \in SeqsUpTo(LabelNames, MaxItems)},
        a \in {None} \cup {Some(x) : x \in SeqsUpTo(AssigneeNames, MaxItems)},
        t \in {None, Some(<< >>)} \cup {Some(x) : x \in TypeNames},
        f \in {None} \cup {Some(x) : x \in FieldMaps}}

InitTemplate ==
    /\ text = None
    /\ input = None
    /\ calls = << >>
    /\ meta \in PartialMetas
    /\ parsed = NotParsed
    /\ MergeIdle
    /\ ItemsIdle
    /\ ApiIdle
    /\ LinkIdle

SpecTemplate == InitTemplate /\ [][NextRound]_vars

\* What follows "name: " on a list line: the entries joined by ", ", nothing
\* for an absent or empty list.
ListShown(m, f) ==
    IF IsNone(m) \/ IsNone(Val(m)[f]) THEN << >>
    ELSE Join(Val(Val(m)[f]), << COMMA, SP >>)

\* The entries of the fields mapping, in mapping order; none for an absent
\* mapping.
EntriesOf(m) ==
    IF IsNone(m) \/ IsNone(Val(m).fields) THEN << >> ELSE Val(Val(m).fields)

\* C11: for every argument, undefined included, the template is made of the
\* lines ---, labels:, assignees:, type: in that order (each followed by the
\* comma-joined list or the scalar, or by nothing when it is absent, empty
\* or null), then one key: value line per fields entry in mapping order,
\* then a closing ---.
C11_TemplateShape ==
    (Len(calls) = 1 /\ LastOp = "generate")
        => LET ls == Split(Val(text), NL)
               es == EntriesOf(meta)
               ty == IF IsNone(meta) \/ IsNone(Val(meta).type) THEN << >>
                     ELSE Val(Val(meta).type)
           IN  /\ Len(ls) = Len(es) + 5
               /\ ls[1] = << DELIM >>
               /\ ls[2] = << "labels", COLON, SP >> \o ListShown(meta, "labels")
               /\ ls[3] = << "assignees", COLON, SP >>
                              \o ListShown(meta, "assignees")
               /\ ls[4] = << "type", COLON, SP >> \o ty
               /\ \A i \in 1 .. Len(es) :
                     ls[4 + i] = es[i].key \o << COLON, SP >> \o es[i].value
               /\ ls[Len(ls)] = << DELIM >>

\* C11: a template was generated from an argument with no labels property,
\* an empty type and two fields.
C11_Witness ==
    /\ Len(calls) = 1 /\ LastOp = "generate"
    /\ ~IsNone(meta)
    /\ IsNone(Val(meta).labels)
    /\ Val(meta).type = Some(<< >>)
    /\ Len(EntriesOf(meta)) = 2

----------------------------------------------------------------------------
(* Merging the metadata of the text with the overrides of the command line. *)

\* The metadata parsed from the text.
ContentMetas ==
    [labels : {<< >>, << << "bug" >> >>},
     assignees : {<< >>, << << "al" >> >>},
     type : {None, Some(<< >>), Some(<< "Feature" >>)},
     fields : FieldMaps]

\* The overrides: each property absent, empty or filled.
FlagMetas ==
    [labels : {None, Some(<< >>), Some(<< << "good", SP, "first" >> >>),
               Some(<< << "bug" >>, << "urgent" >> >>)},
     assignees : {None, Some(<< >>), Some(<< << "bo" >> >>)},
     type : {None, Some(<< >>), Some(<< "Bug", SP, "report" >>)},
     fields : {None} \cup {Some(f) : f \in FieldMaps}]

\* merged = mergeMetadata(fromContent, fromFlags)
Merge ==
    /\ IsNone(merged)
    /\ merged' = Some(mergeMetadata(fromContent, fromFlags))
    /\ UNCHANGED <<fromContent, fromFlags, optFields, codecVars, itemVars, apiVars, linkVars>>

InitMerge ==
    /\ fromContent \in ContentMetas
    /\ fromFlags \in FlagMetas
    /\ merged = None
    /\ optFields = None
    /\ text = None
    /\ input = None
    /\ calls = << >>
    /\ meta = None
    /\ parsed = NotParsed
    /\ ItemsIdle
    /\ ApiIdle
    /\ LinkIdle

NextMerge == Merge

SpecMerge == InitMerge /\ [][NextMerge]_vars

\* C12: the merged labels are the override labels when these are present
\* and not empty, the labels of the text otherwise, and likewise for the
\* assignees; an empty override list never clears the list of the text.
C12_ListsOverride ==
    ~IsNone(merged)
        => /\ Val(merged).labels =
                  IF IsNone(fromFlags.labels) \/ Val(fromFlags.labels) = << >>
                  THEN fromContent.labels ELSE Val(fromFlags.labels)
           /\ Val(merged).assignees =
                  IF IsNone(fromFlags.assignees) \/ Val(fromFlags.assignees) = << >>
                  THEN fromContent.assignees ELSE Val(fromFlags.assignees)

\* C12: labels [bug] of the text were merged with an empty override list.
C12_Witness ==
    /\ ~IsNone(merged)
    /\ fromContent.labels = << << "bug" >> >>
    /\ fromFlags.labels = Some(<< >>)
    /\ Val(merged).labels = << << "bug" >> >>

\* C13: the merged type is the override type whenever that is neither null
\* nor absent, the empty string included, and the type of the text
\* otherwise.
C13_TypeOverride ==
    ~IsNone(merged)
        => Val(merged).type = IF fromFlags.type = None THEN fromContent.type
                              ELSE fromFlags.type

\* C13: an empty-string override type was merged over a non-empty type of
\* the text.
C13_Witness ==
    /\ ~IsNone(merged)
    /\ fromFlags.type = Some(<< >>)
    /\ fromContent.type = Some(<< "Feature" >>)
    /\ Val(merged).type = Some(<< >>)

\* The keys of a mapping and the value it holds under a key.
KeysOf(fields) == {fields[i].key : i \in 1 .. Len(fields)}
ValueAt(fields, key) ==
    fields[CHOOSE i \in 1 .. Len(fields) : fields[i].key = key].value
FlagFields == IF IsNone(fromFlags.fields) THEN << >> ELSE Val(fromFlags.fields)

\* The merged fields hold exactly the keys of either input, the override
\* value under every override key and the value of the text under the
\* others.
FieldsUnion(m) ==
    /\ KeysOf(m.fields) = KeysOf(fromContent.fields) \cup KeysOf(FlagFields)
    /\ \A i, j \in 1 .. Len(m.fields) : m.fields[i].key = m.fields[j].key => i = j
    /\ \A k \in KeysOf(FlagFields) :
          ValueAt(m.fields, k) = ValueAt(FlagFields, k)
    /\ \A k \in KeysOf(fromContent.fields) \ KeysOf(FlagFields) :
          ValueAt(m.fields, k) = ValueAt(fromContent.fields, k)

\* C14: the merged fields have exactly the union of the keys of both inputs,
\* every override key with the override value and every other key with the
\* value of the text, and the call changes neither input.
C14_FieldsUnion ==
    [][merged' # merged
          => /\ FieldsUnion(Val(merged'))
             /\ fromContent' = fromContent
             /\ fromFlags' = fromFlags]_vars

\* C14: both inputs held Priority with different values, the text alone
\* held Story Points, and the merge kept both keys.
C14_Witness ==
    /\ ~IsNone(merged)
    /\ << "Priority" >> \in KeysOf(fromContent.fields) \cap KeysOf(FlagFields)
    /\ ValueAt(fromContent.fields, << "Priority" >>)
           # ValueAt(FlagFields, << "Priority" >>)
    /\ << "Story", SP, "Points" >> \in
           KeysOf(fromContent.fields) \ KeysOf(FlagFields)
    /\ Len(Val(merged).fields) = 2

----------------------------------------------------------------------------
(* The --fields option of the command line. *)

\* The pairs an option string is made of.
OptionPairs ==
    {<< "priority", EQ, "High" >>,
     << "priority", EQ, "Low" >>,
     << "size", EQ, "xs" >>,
     << "priority", EQ, "High", EQ, "VeryHigh" >>,
     << SP, "size", SP, EQ, SP, "xs", SP >>,
     << "size", EQ >>,
     << "flag" >>,
     << >>,
     << EQ, "v" >>,
     << SP, EQ, "v" >>,
     << "__proto__", EQ, "x" >>}

OptionStrings ==
    {Join(ps, << COMMA >>) : ps \in SeqsUpTo(OptionPairs, MaxPairs)}

\* optFields = parseFieldsOption(text)
ParseFields ==
    /\ IsNone(optFields)
    /\ ~IsNone(text)
    /\ optFields' = Some(parseFieldsOption(Val(text)))
    /\ UNCHANGED <<fromContent, fromFlags, merged, codecVars, itemVars, apiVars, linkVars>>

InitFields ==
    /\ text \in {Some(t) : t \in OptionStrings}
    /\ input = text
    /\ calls = << >>
    /\ meta = None
    /\ parsed = NotParsed
    /\ MergeIdle
    /\ ItemsIdle
    /\ ApiIdle
    /\ LinkIdle

NextFields == ParseFields

SpecFields == InitFields /\ [][NextFields]_vars

\* The place of the first = of a pair, the text before it and the text
\* after it.
HasEq(p) == \E i \in 1 .. Len(p) : p[i] = EQ
FirstEq(p) == CHOOSE i \in 1 .. Len(p) : p[i] = EQ /\ \A j \in 1 .. (i - 1) : p[j] # EQ
KeyText(p) == SubSeq(p, 1, FirstEq(p) - 1)
ValueText(p) == SubSeq(p, FirstEq(p) + 1, Len(p))

\* C15: the option string is split on commas; every pair that has text
\* before its first = is recorded under that text, trimmed, with everything
\* after the first = (later = signs kept), trimmed, as its value, the last
\* pair of a key giving its value; a pair with no = records nothing.
C15_PairsRecorded ==
    ~IsNone(optFields)
        => LET ps == Split(Val(text), COMMA)
               f == Val(optFields)
               recorded == {j \in 1 .. Len(ps) :
                               HasEq(ps[j]) /\ KeyText(ps[j]) # << >>}
               sameKey(j) == {i \in recorded :
                                Trim(KeyText(ps[i])) = Trim(KeyText(ps[j]))}
           IN  /\ KeysOf(f) = {Trim(KeyText(ps[j])) : j \in recorded}
               /\ \A i, j \in 1 .. Len(f) : f[i].key = f[j].key => i = j
               /\ \A j \in recorded :
                     ValueAt(f, Trim(KeyText(ps[j])))
                        = Trim(ValueText(ps[MaxOf(sameKey(j))]))

\* C15, with the key __proto__ set aside.
C15_PairsRecordedButProto ==
    (\A j \in 1 .. Len(Split(Val(text), COMMA)) :
        LET p == Split(Val(text), COMMA)[j]
        IN  HasEq(p) => Trim(KeyText(p)) # << "__proto__" >>)
        => C15_PairsRecorded

----------------------------------------------------------------------------
(* src/src/github-api.ts: getProjectItems *)

\* The rank of an item whose status is absent or not among the options.
SENTINEL == 999

SingleSelectValue == "ProjectV2ItemFieldSingleSelectValue"
TextValue == "ProjectV2ItemFieldTextValue"
NumberValue == "ProjectV2ItemFieldNumberValue"
DateValue == "ProjectV2ItemFieldDateValue"
IterationValue == "ProjectV2ItemFieldIterationValue"

\* The number attribute of a field value: not there, null, or a number.
Undefined == [kind |-> "undefined", n |-> 0]
Null == [kind |-> "null", n |-> 0]
Num(n) == [kind |-> "number", n |-> n]

\* Number.prototype.toString of an integer: its decimal text, one token.
NumberToString(n) == << ToString(n) >>

\* statusOrderMap.get(key) with the lookup key used as the item wrote it.
StatusOrderGet_caseSensitive(field, key) ==
    IF IsNone(field) THEN None
    ELSE LET options == Val(field)
             hits == {i \in 1 .. Len(options) : LowerCase(options[i]) = Val(key)}
         IN  IF hits = {} THEN None ELSE Some(MaxOf(hits) - 1)

\* statusOrderMap.get(key.toLowerCase()) for a status key (an option of the
\* status as the item holds it): the map is filled by forEach in list order
\* under the lower-cased option names with their zero-based positions, so a
\* name met again replaces the position stored before; undefined on a miss
\* and when there is no status field.
StatusOrderGet(field, key) ==
    IF IsNone(field) THEN None
    ELSE LET options == Val(field)
             hits == {i \in 1 .. Len(options) :
                         LowerCase(options[i]) = LowerCase(Val(key))}
         IN  IF hits = {} THEN None ELSE Some(MaxOf(hits) - 1)

\* statusIndex with || in place of ??.
StatusIndexOf_truthy(field, status) ==
    IF Falsy(status) THEN SENTINEL
    ELSE LET hit == StatusOrderGet(field, status)
         IN  IF IsNone(hit) \/ Val(hit) = 0 THEN SENTINEL ELSE Val(hit)

\* status ? (statusOrderMap.get(status.toLowerCase()) ?? 999) : 999
StatusIndexOf(field, status) ==
    IF Falsy(status) THEN SENTINEL
    ELSE LET hit == StatusOrderGet(field, status)
         IN  IF IsNone(hit) THEN SENTINEL ELSE Val(hit)

\* The state of an item with the merged flag left out of account.
StateOf_ignoreMerged(content) ==
    IF Falsy(content.state) THEN None
    ELSE IF Val(content.state) = << "OPEN" >> THEN Some("open")
    ELSE Some("closed")

\* let state = null; if (content.state) { ... }
StateOf(content) ==
    IF Falsy(content.state) THEN None
    ELSE IF content.merged = Some(TRUE) THEN Some("merged")
    ELSE IF Val(content.state) = << "OPEN" >> THEN Some("open")
    ELSE Some("closed")

\* 'draft' unless the content is an Issue or a PullRequest.
TypeOf(content) ==
    IF content.typename = "Issue" THEN "issue"
    ELSE IF content.typename = "PullRequest" THEN "pull_request"
    ELSE "draft"

\* fields['Status'] || null
StatusIn(fields) ==
    IF << "Status" >> \in {fields[i].key : i \in 1 .. Len(fields)}
    THEN Some(fields[CHOOSE i \in 1 .. Len(fields) :
                        fields[i].key = << "Status" >>].value)
    ELSE None

RECURSIVE ExtractFields(_, _)
\* The loop over item.fieldValues.nodes: the fields mapping it builds, or
\* threw when fv.number.toString() is reached with a null number.
ExtractFields(fields, nodes) ==
    IF nodes = << >> THEN [threw |-> FALSE, fields |-> fields]
    ELSE LET fv == Head(nodes)
             rest == Tail(nodes)
         IN  IF Falsy(fv.field) THEN ExtractFields(fields, rest)
             ELSE IF fv.typename = SingleSelectValue /\ ~Falsy(fv.name)
             THEN ExtractFields(SetField(fields, Val(fv.field), Val(fv.name)), rest)
             ELSE IF fv.typename = TextValue /\ ~Falsy(fv.text)
             THEN ExtractFields(SetField(fields, Val(fv.field), Val(fv.text)), rest)
             ELSE IF fv.typename = NumberValue /\ fv.number # Undefined
             THEN IF fv.number = Null
                  THEN [threw |-> TRUE, fields |-> fields]
                  ELSE ExtractFields(SetField(fields, Val(fv.field),
                                              NumberToString(fv.number.n)), rest)
             ELSE IF fv.typename = DateValue /\ ~Falsy(fv.date)
             THEN ExtractFields(SetField(fields, Val(fv.field), Val(fv.date)), rest)
             ELSE IF fv.typename = IterationValue /\ ~Falsy(fv.title)
             THEN ExtractFields(SetField(fields, Val(fv.field), Val(fv.title)), rest)
             ELSE ExtractFields(fields, rest)

\* The callback of map: the normalized item of one raw record with content.
NormalizeItem(field, item) ==
    LET content == Val(item.content)
        extracted == ExtractFields(<< >>, item.fieldValues)
        status == IF Falsy(StatusIn(extracted.fields)) THEN None
                  ELSE StatusIn(extracted.fields)
    IN  [threw |-> extracted.threw,
         item |-> [id |-> item.id,
                   title |-> IF Falsy(content.title) THEN << "Untitled" >>
                             ELSE Val(content.title),
                   type |-> TypeOf(content),
                   status |-> status,
                   statusIndex |-> StatusIndexOf(field, status),
                   state |-> StateOf(content),
                   fields |-> extracted.fields]]

\* item => item.content
HasContent(item) == ~IsNone(item.content)

\* getProjectItems: how the call ends and, when it returns, the list it
\* returns.  field is what getStatusField gave, nodes is
\* response.node.items.nodes.
getProjectItems(auth, field, nodes) ==
    IF ~auth THEN [outcome |-> "Not authenticated", items |-> << >>]
    ELSE LET kept == SelectSeq(nodes, HasContent)
             mapped == [i \in 1 .. Len(kept) |-> NormalizeItem(field, kept[i])]
         IN  IF \E i \in 1 .. Len(mapped) : mapped[i].threw
             THEN [outcome |-> "TypeError", items |-> << >>]
             ELSE [outcome |-> "returned",
                   items |-> [i \in 1 .. Len(mapped) |-> mapped[i].item]]

----------------------------------------------------------------------------
(* The raw records and the status options getProjectItems is given. *)

\* A field value of one kind: every attribute the query does not return for
\* that kind is undefined.
NoValue ==
    [typename |-> "", field |-> None, name |-> None, text |-> None,
     number |-> Undefined, date |-> None, title |-> None]
SingleSelect(field, name) ==
    [NoValue EXCEPT !.typename = SingleSelectValue, !.field = field, !.name = name]
TextOf(field, t) ==
    [NoValue EXCEPT !.typename = TextValue, !.field = field, !.text = t]
NumberOf(field, n) ==
    [NoValue EXCEPT !.typename = NumberValue, !.field = field, !.number = n]
DateOf(field, d) ==
    [NoValue EXCEPT !.typename = DateValue, !.field = field, !.date = d]
IterationOf(field, t) ==
    [NoValue EXCEPT !.typename = IterationValue, !.field = field, !.title = t]

\* The content of a raw record: an issue, a pull request or a draft.
IssueContent(state) ==
    [typename |-> "Issue", title |-> Some(<< "a" >>), state |-> Some(<< state >>),
     merged |-> None]
PullRequestContent(state, isMerged) ==
    [typename |-> "PullRequest", title |-> Some(<< "x" >>),
     state |-> Some(<< state >>), merged |-> Some(isMerged)]
DraftContent ==
    [typename |-> "DraftIssue", title |-> None, state |-> None, merged |-> None]

ContentShapes ==
    {IssueContent(st) : st \in {"OPEN", "CLOSED"}}
    \cup {PullRequestContent(st, mg) : st \in {"OPEN", "CLOSED", "MERGED"},
                                        mg \in BOOLEAN}
    \cup {DraftContent}

\* The lists of field values of a record: well-formed entries of every kind,
\* entries with no field name, and entries whose value is missing or null.
FieldValueLists ==
    {<< >>,
     << SingleSelect(Some(<< "Status" >>), Some(<< "Todo" >>)),
        NumberOf(Some(<< "Estimate" >>), Num(3)) >>,
     << NumberOf(Some(<< "Estimate" >>), Num(0)),
        NumberOf(Some(<< "Estimate" >>), Null) >>,
     << SingleSelect(None, Some(<< "Todo" >>)),
        TextOf(Some(<< "Notes" >>), None) >>,
     << NumberOf(Some(<< "Estimate" >>), Undefined),
        SingleSelect(Some(<< "Status" >>), Some(<< "Done" >>)) >>,
     << TextOf(Some(<< "Notes" >>), Some(<< "text" >>)),
        TextOf(Some(<< "Notes" >>), Some(<< "more" >>)) >>,
     << DateOf(Some(<< "Due" >>), Some(<< "2026-01-31" >>)),
        IterationOf(Some(<< "Sprint" >>), Some(<< "Sprint", SP, "1" >>)) >>,
     << SingleSelect(Some(<< "Status" >>), None),
        [NoValue EXCEPT !.typename = "ProjectV2ItemFieldLabelValue"] >>}

\* The raw records, before their ids: a record with null content, a record
\* of every content shape, and an open issue with every list of field
\* values.
RawShapes ==
    {[fieldValues |-> << >>, content |-> None]}
    \cup {[fieldValues |-> << >>, content |-> Some(c)] : c \in ContentShapes}
    \cup {[fieldValues |-> l, content |-> Some(IssueContent("OPEN"))] :
             l \in FieldValueLists}

\* response.node.items.nodes: the i-th record has id i.
WithIds(shapes) ==
    [i \in 1 .. Len(shapes) |->
        [id |-> i, fieldValues |-> shapes[i].fieldValues,
         content |-> shapes[i].content]]

RawLists == {WithIds(l) : l \in SeqsUpTo(RawShapes, MaxRaw)}

\* The names of the status options and the statuses items hold.
StatusNames == {<< "Todo" >>, << "TODO" >>, << "Doing" >>, << "Done" >>}

\* A list of one option more than SENTINEL, named "1", "2", ...
LongOptions == [i \in 1 .. (SENTINEL + 1) |-> NumberToString(i)]

StatusFields ==
    {None} \cup {Some(o) : o \in SeqsUpTo(StatusNames, MaxOptions)}
           \cup {Some(LongOptions)}

ItemStatuses ==
    {None} \cup {Some(n) : n \in StatusNames}
           \cup {Some(<< "Blocked" >>), Some(NumberToString(SENTINEL)),
                  Some(NumberToString(SENTINEL + 1))}

\* An open issue whose only field value is its status, if it has one.
StatusShape(status) ==
    [fieldValues |-> IF IsNone(status) THEN << >>
                     ELSE << SingleSelect(Some(<< "Status" >>), status) >>,
     content |-> Some(IssueContent("OPEN"))]

StatusLists ==
    {WithIds(<< StatusShape(a), StatusShape(b) >>) : a, b \in ItemStatuses}

\* fetched = await getProjectItems(projectId, projectTitle)
GetProjectItems ==
    /\ IsNone(fetched)
    /\ fetched' = Some(getProjectItems(graphqlWithAuth, statusField, rawItems))
    /\ UNCHANGED <<graphqlWithAuth, statusField, rawItems, codecVars, mergeVars, apiVars, linkVars>>

CodecIdle ==
    /\ text = None
    /\ input = None
    /\ calls = << >>
    /\ meta = None
    /\ parsed = NotParsed

InitItems ==
    /\ graphqlWithAuth \in BOOLEAN
    /\ statusField \in {None, Some(<< << "Todo" >>, << "Done" >> >>)}
    /\ rawItems \in RawLists
    /\ fetched = None
    /\ CodecIdle
    /\ MergeIdle
    /\ ApiIdle
    /\ LinkIdle

InitStatus ==
    /\ graphqlWithAuth = TRUE
    /\ statusField \in StatusFields
    /\ rawItems \in StatusLists
    /\ fetched = None
    /\ CodecIdle
    /\ MergeIdle
    /\ ApiIdle
    /\ LinkIdle

NextItems == GetProjectItems

SpecItems == InitItems /\ [][NextItems]_vars

SpecStatus == InitStatus /\ [][NextItems]_vars

----------------------------------------------------------------------------
(* Claims about getProjectItems. *)

Returned == ~IsNone(fetched) /\ Val(fetched).outcome = "returned"
Items == Val(fetched).items
Options == IF IsNone(statusField) THEN << >> ELSE Val(statusField)

\* The positions of the options an item's status names, in any casing.
Named(item) ==
    IF IsNone(item.status) THEN {}
    ELSE {i \in 1 .. Len(Options) :
             LowerCase(Options[i]) = LowerCase(Val(item.status))}

\* The positions of the options whose name is exactly an item's status.
NamedExactly(item) ==
    IF IsNone(item.status) THEN {}
    ELSE {i \in 1 .. Len(Options) : Options[i] = Val(item.status)}

\* No two options have the same name once lower-cased.
DistinctOptions ==
    Cardinality({LowerCase(Options[i]) : i \in 1 .. Len(Options)}) = Len(Options)

\* C16: for every ordered list of status options, if option A precedes an
\* option B of another name, an item whose Status is A's name gets a
\* statusIndex strictly smaller than an item whose Status is B's name.
C16_EarlierRanksLower ==
    Returned
        => \A k, l \in 1 .. Len(Items) :
              \A i \in NamedExactly(Items[k]) : \A j \in NamedExactly(Items[l]) :
                 (i < j /\ Options[i] # Options[j])
                     => Items[k].statusIndex < Items[l].statusIndex

\* C16, amended: for every ordered list of status options whose names are
\* pairwise distinct once lower-cased, if option A precedes option B, an
\* item whose Status is A's name in any casing gets a statusIndex strictly
\* smaller than an item whose Status is B's name in any casing.
C16_EarlierRanksLowerDistinct ==
    (Returned /\ DistinctOptions)
        => \A k, l \in 1 .. Len(Items) :
              \A i \in Named(Items[k]) : \A j \in Named(Items[l]) :
                 i < j => Items[k].statusIndex < Items[l].statusIndex

\* C16: the options are Todo, Done; the first item holds TODO and ranks 0,
\* the second holds Done and ranks 1.
C16_Witness ==
    /\ Returned
    /\ statusField = Some(<< << "Todo" >>, << "Done" >> >>)
    /\ Len(Items) = 2
    /\ Items[1].status = Some(<< "TODO" >>) /\ Items[1].statusIndex = 0
    /\ Items[2].status = Some(<< "Done" >>) /\ Items[2].statusIndex = 1

\* An item with no status, or with a status no option has, ranks at the
\* sentinel.
UnrankedAtSentinel ==
    \A k \in 1 .. Len(Items) :
        Named(Items[k]) = {} => Items[k].statusIndex = SENTINEL

\* An item whose status is among the options ranks below the sentinel.
RankedBelowSentinel ==
    \A k \in 1 .. Len(Items) :
        Named(Items[k]) # {} => Items[k].statusIndex < SENTINEL

\* C17: an item whose Status is absent or not among the options (there may
\* be no Status field at all) gets statusIndex 999, and 999 is strictly
\* greater than the statusIndex of every item whose status is among the
\* options, for every option list.
C17_SentinelLast == Returned => (UnrankedAtSentinel /\ RankedBelowSentinel)

\* C17, amended: the same, the second half for every list of at most 999
\* options.
C17_SentinelLastUpTo999 ==
    Returned => /\ UnrankedAtSentinel
                /\ Len(Options) <= SENTINEL => RankedBelowSentinel

\* C17: of two items of one batch the first has no Status and ranks 999, the
\* second holds the second option and ranks 1.
C17_Witness ==
    /\ Returned
    /\ Len(Items) = 2
    /\ IsNone(Items[1].status) /\ Items[1].statusIndex = SENTINEL
    /\ Named(Items[2]) = {2} /\ Items[2].statusIndex = 1

\* The raw records with content, in the order of the response.
Kept == SelectSeq(rawItems, HasContent)

\* C18: getProjectItems drops the records with null content without
\* raising and returns exactly one item per record with content, in the
\* same relative order.
C18_OnePerContent ==
    (graphqlWithAuth /\ ~IsNone(fetched))
        => /\ Returned
           /\ Len(Items) = Len(Kept)
           /\ \A k \in 1 .. Len(Kept) : Items[k].id = Kept[k].id

\* The raw record an item was made from.
RawOf(item) == rawItems[item.id]

\* C19: the state of an item is null when the raw content has no state
\* attribute; otherwise it is merged when merged is true, whatever the raw
\* state, open when the raw state is OPEN, and closed for any other state.
C19_StateDerived ==
    Returned
        => \A k \in 1 .. Len(Items) :
              LET content == Val(RawOf(Items[k]).content)
              IN  Items[k].state =
                      IF IsNone(content.state) THEN None
                      ELSE IF content.merged = Some(TRUE) THEN Some("merged")
                      ELSE IF Val(content.state) = << "OPEN" >> THEN Some("open")
                      ELSE Some("closed")

\* C19: a pull request with merged true and state CLOSED came out merged,
\* next to a draft with null state.
C19_Witness ==
    /\ Returned
    /\ Len(Items) = 2
    /\ RawOf(Items[1]).content = Some(PullRequestContent("CLOSED", TRUE))
    /\ Items[1].state = Some("merged")
    /\ RawOf(Items[2]).content = Some(DraftContent)
    /\ Items[2].state = None

\* The value a field-value entry carries for its kind, as text; None when
\* the kind is none of the five or the value is missing or null.
ValueOf(fv) ==
    IF fv.typename = SingleSelectValue THEN fv.name
    ELSE IF fv.typename = TextValue THEN fv.text
    ELSE IF fv.typename = NumberValue
    THEN IF fv.number.kind = "number" THEN Some(NumberToString(fv.number.n))
         ELSE None
    ELSE IF fv.typename = DateValue THEN fv.date
    ELSE IF fv.typename = IterationValue THEN fv.title
    ELSE None

\* An entry with a field name and a value for its kind.
WellFormed(fv) == ~IsNone(fv.field) /\ ~IsNone(ValueOf(fv))

\* C20: a malformed field-value entry (no field name, or a missing or null
\* value for its kind, a null number included) never aborts the call: one
\* item is returned per record with content, and its fields hold every
\* well-formed entry of the record, the last of a name giving its value, and
\* nothing else.
C20_MalformedSkipped ==
    (graphqlWithAuth /\ ~IsNone(fetched))
        => /\ Returned
           /\ Len(Items) = Len(Kept)
           /\ \A k \in 1 .. Len(Kept) :
                 LET fvs == Kept[k].fieldValues
                     good == {i \in 1 .. Len(fvs) : WellFormed(fvs[i])}
                     f == Items[k].fields
                 IN  /\ KeysOf(f) = {Val(fvs[i].field) : i \in good}
                     /\ \A i \in good :
                           ValueAt(f, Val(fvs[i].field)) =
                              Val(ValueOf(fvs[MaxOf({j \in good :
                                     fvs[j].field = fvs[i].field})]))

\* C20, with the number entries whose number is null set aside.
C20_MalformedSkippedButNullNumber ==
    (\A k \in 1 .. Len(Kept) : \A i \in 1 .. Len(Kept[k].fieldValues) :
        Kept[k].fieldValues[i].number # Null)
        => C20_MalformedSkipped

\* C18, with the number entries whose number is null set aside.
C18_OnePerContentButNullNumber ==
    (\A k \in 1 .. Len(Kept) : \A i \in 1 .. Len(Kept[k].fieldValues) :
        Kept[k].fieldValues[i].number # Null)
        => C18_OnePerContent

----------------------------------------------------------------------------
(* Removing, then parsing; generating from nothing, then parsing. *)

\* C25: for every body, parseBranchLink(removeBranchLinkFromBody(body))
\* returns null.
C25_NoLinkAfterRemove ==
    LastOp = "remove" => parseBranchLink(text) = None

\* C25, for bodies with at most one marker that the removal cannot join
\* into a new one: the removed text has no match left.
C25_NoLinkAfterRemoveOfOne ==
    (LastOp = "remove" /\ CountMarkers(Str(input)) <= 1)
        => parseBranchLink(text) = None

\* No metadata at all, or metadata with every property empty.
IsEmptyArgument(m) ==
    \/ IsNone(m)
    \/ /\ Val(m).labels \in {None, Some(<< >>)}
       /\ Val(m).assignees \in {None, Some(<< >>)}
       /\ Val(m).type = None
       /\ Val(m).fields \in {None, Some(<< >>)}

\* C30: parsing the template generated from no metadata or from empty
\* metadata returns empty metadata: labels [], assignees [], type null and
\* fields {}.
C30_EmptyRoundTrip ==
    (/\ Len(calls) = 2 /\ calls[1].op = "generate" /\ calls[2].op = "parse"
     /\ IsEmptyArgument(meta))
        => parsed.metadata = EmptyMetadata

\* C30, with the type left out of the comparison.
C30_EmptyRoundTripButType ==
    (/\ Len(calls) = 2 /\ calls[1].op = "generate" /\ calls[2].op = "parse"
     /\ IsEmptyArgument(meta))
        => [parsed.metadata EXCEPT !.type = None] = EmptyMetadata

----------------------------------------------------------------------------
(* src/src/github-api.ts: authentication, the guard of every remote        *)
(* operation, and what becomes of a failing remote query.                  *)

\* What a rejected remote query rejects with.  isObject: a truthy object;
\* hasErrors: 'errors' in error; errors: the value of that property, an
\* option of a list of entries [type, message], each an option.
NetworkError == [isObject |-> TRUE, hasErrors |-> FALSE, errors |-> None]
\* null(...) : TypeError, this.graphqlWithAuth is not a function
NotAFunction == [isObject |-> TRUE, hasErrors |-> FALSE, errors |-> None,
                 name |-> "TypeError"]
ErrorEntries ==
    {[type |-> Some("INSUFFICIENT_SCOPES"), message |-> Some(<< "x" >>)],
     [type |-> Some("FORBIDDEN"), message |-> Some(<< "needs", SP, "SSO" >>)],
     [type |-> None, message |-> Some(<< "SAML", SP, "x" >>)],
     [type |-> Some("NOT_FOUND"), message |-> Some(<< "sso", SP, "x" >>)],
     [type |-> None, message |-> None]}
Payloads ==
    {NetworkError,
     [isObject |-> FALSE, hasErrors |-> FALSE, errors |-> None],
     [isObject |-> TRUE, hasErrors |-> TRUE, errors |-> None]}
    \cup {[isObject |-> TRUE, hasErrors |-> TRUE, errors |-> Some(es)] :
             es \in SeqsUpTo(ErrorEntries, MaxErrors)}

\* createAuthError(message, type, details)
createAuthError(type, requiredScopes) ==
    [authError |-> TRUE, type |-> type, requiredScopes |-> requiredScopes,
     ssoUrl |-> None]

\* e.message?.includes('SSO') || e.message?.includes('SAML')
MentionsSso(e) ==
    /\ ~IsNone(e.message)
    /\ \E i \in 1 .. Len(Val(e.message)) : Val(e.message)[i] \in {"SSO", "SAML"}

\* checkAuthError with the SSO test made before the scope test.
checkAuthError_ssoFirst(error) ==
    IF error.isObject /\ error.hasErrors /\ ~IsNone(error.errors)
    THEN LET es == Val(error.errors)
         IN  IF \E i \in 1 .. Len(es) : MentionsSso(es[i])
             THEN Some(createAuthError("SSO_REQUIRED", None))
             ELSE IF \E i \in 1 .. Len(es) :
                        es[i].type = Some("INSUFFICIENT_SCOPES")
             THEN Some(createAuthError("INSUFFICIENT_SCOPES",
                                       Some(<< "read:project", "project" >>)))
             ELSE None
    ELSE None

\* checkAuthError(error): the AuthError the failure is classified as, or
\* null.
checkAuthError(error) ==
    IF error.isObject /\ error.hasErrors /\ ~IsNone(error.errors)
    THEN LET es == Val(error.errors)
         IN  IF \E i \in 1 .. Len(es) :
                   es[i].type = Some("INSUFFICIENT_SCOPES")
             THEN Some(createAuthError("INSUFFICIENT_SCOPES",
                                       Some(<< "read:project", "project" >>)))
             ELSE IF \E i \in 1 .. Len(es) : MentionsSso(es[i])
             THEN Some(createAuthError("SSO_REQUIRED", None))
             ELSE None
    ELSE None

\* handleAuthError(error): what is thrown, and how often the callback was
\* invoked before the throw.
handleAuthError(error, hasCallback) ==
    LET authError == checkAuthError(error)
    IN  IF ~IsNone(authError)
        THEN [thrown |-> Val(authError),
              callbacks |-> IF hasCallback THEN 1 ELSE 0]
        ELSE [thrown |-> error, callbacks |-> 0]

\* The steps of a remote operation.  guard: if (!this.graphqlWithAuth)
\* throw new Error('Not authenticated').  query: await
\* this.graphqlWithAuth(...); handler says what surrounds it: no try
\* ("none"), catch { return <onFailure> } ("coerce"), or catch (error) {
\* this.handleAuthError(error) } ("auth"); lookup says that a null result
\* ends the operation with its onFailure value.  fetch: await fetch(...).
Guard == [kind |-> "guard", handler |-> "none", lookup |-> FALSE]
Query(handler) == [kind |-> "query", handler |-> handler, lookup |-> FALSE]
Lookup(handler) == [kind |-> "query", handler |-> handler, lookup |-> TRUE]
Fetch == [kind |-> "fetch", handler |-> "coerce", lookup |-> FALSE]

Read(stages, onFailure) ==
    [kind |-> "read", stages |-> stages, onFailure |-> onFailure]
Write(stages, onFailure) ==
    [kind |-> "write", stages |-> stages, onFailure |-> onFailure]

\* A method with the guard and one query inside try/catch.
OneQuery == << Guard, Query("coerce") >>
\* A method that looks the issue up, returns early when there is none, and
\* then sends a mutation, all inside try/catch.
LookupThenMutate == << Guard, Lookup("coerce"), Query("coerce") >>

OpNames ==
    {"getProjects", "getProjectItems", "getStatusField", "getProjectViews",
     "updateItemStatus", "findItemByNumber", "getProjectFields",
     "setFieldValue", "createIssue", "addToProject", "getIssueDetails",
     "addComment", "getCollaborators", "getRecentIssues", "ensureLabel",
     "addLabelToIssue", "removeLabelFromIssue", "findIssuesWithLabel",
     "getIssueTypes", "setIssueType", "updateIssueBody", "updateIssue",
     "link", "unlink", "getBranchForIssue", "hasLink"}

\* The remote operations of GitHubAPI and of BranchLinker.
Operation(op) ==
    CASE op = "getProjects" -> Read(<< Guard, Query("auth") >>, "none")
      [] op = "getProjectItems" ->
            Read(<< Guard, Guard, Query("none"), Query("none") >>, "none")
      [] op = "getStatusField" -> Read(<< Guard, Query("none") >>, "none")
      [] op = "getProjectViews" -> Read(OneQuery, "[]")
      [] op = "updateItemStatus" -> Write(OneQuery, "false")
      [] op = "findItemByNumber" ->
            Read(<< Guard, Query("auth"), Guard, Guard, Query("none"),
                    Query("none") >>, "none")
      [] op = "getProjectFields" -> Read(<< Guard, Query("none") >>, "none")
      [] op = "setFieldValue" -> Write(OneQuery, "false")
      [] op = "createIssue" ->
            Write(<< Guard, Query("coerce"), Query("coerce") >>, "null")
      [] op = "addToProject" -> Write(OneQuery, "null")
      [] op = "getIssueDetails" -> Read(<< Guard, Lookup("coerce") >>, "null")
      [] op = "addComment" -> Write(LookupThenMutate, "false")
      [] op = "getCollaborators" -> Read(OneQuery, "[]")
      [] op = "getRecentIssues" -> Read(OneQuery, "[]")
      [] op = "ensureLabel" ->
            Write(<< Guard, Query("coerce"), Fetch >>, "false")
      [] op = "addLabelToIssue" -> Write(LookupThenMutate, "false")
      [] op = "removeLabelFromIssue" -> Write(LookupThenMutate, "false")
      [] op = "findIssuesWithLabel" -> Read(OneQuery, "[]")
      [] op = "getIssueTypes" -> Read(OneQuery, "[]")
      [] op = "setIssueType" -> Write(LookupThenMutate, "false")
      [] op = "updateIssueBody" -> Write(LookupThenMutate, "false")
      [] op = "updateIssue" -> Write(LookupThenMutate, "false")
      [] op = "link" ->
            Write(<< Guard, Lookup("coerce") >> \o LookupThenMutate, "false")
      [] op = "unlink" ->
            Write(<< Guard, Lookup("coerce") >> \o LookupThenMutate, "false")
      [] op = "getBranchForIssue" -> Read(<< Guard, Lookup("coerce") >>, "null")
      [] op = "hasLink" -> Read(<< Guard, Lookup("coerce") >>, "false")

\* A remote operation that has not been called yet.
NoCall == [pc |-> "none"]

\* The call ends: it returned what, or threw what (with the error object
\* thrown, if it is not the plain 'Not authenticated' Error).
Finish(c, how, what, error) ==
    [c EXCEPT !.pc = "done",
              !.outcome = [how |-> how, what |-> what, error |-> error]]

\* Reject with every catch block rethrowing.
Reject_rethrow(c, k, error, hasCallback) ==
    Finish(c, "threw", "error", Some(error))

\* The query of step k rejected with error (or could not be sent): what the
\* code around it makes of that.
Reject(c, k, error, hasCallback) ==
    LET o == Operation(c.op)
        h == o.stages[k].handler
    IN  IF h = "coerce" THEN Finish(c, "returned", o.onFailure, None)
        ELSE IF h = "auth"
        THEN LET r == handleAuthError(error, hasCallback)
             IN  [Finish(c, "threw", "error", Some(r.thrown))
                     EXCEPT !.callbacks = @ + r.callbacks]
        ELSE Finish(c, "threw", "error", Some(error))

RECURSIVE RunFrom_guardInTry(_, _, _, _)
\* RunFrom with the guard placed inside the try block.
RunFrom_guardInTry(c, k, auth, hasCallback) ==
    LET stages == Operation(c.op).stages
    IN  IF k > Len(stages) THEN Finish(c, "returned", "value", None)
        ELSE IF stages[k].kind = "guard"
        THEN IF auth THEN RunFrom_guardInTry(c, k + 1, auth, hasCallback)
             ELSE Reject(c, Len(stages), NetworkError, hasCallback)
        ELSE IF stages[k].kind = "query" /\ ~auth
        THEN Reject(c, k, NotAFunction, hasCallback)
        ELSE [c EXCEPT !.pc = "awaiting", !.at = k, !.issued = @ + 1]

RECURSIVE RunFrom(_, _, _, _)
\* The operation runs from step k until it awaits a remote query or ends;
\* auth is whether this.graphqlWithAuth is set as it runs.
RunFrom(c, k, auth, hasCallback) ==
    LET stages == Operation(c.op).stages
    IN  IF k > Len(stages) THEN Finish(c, "returned", "value", None)
        ELSE IF stages[k].kind = "guard"
        THEN IF auth THEN RunFrom(c, k + 1, auth, hasCallback)
             ELSE Finish(c, "threw", "Not authenticated", None)
        ELSE IF stages[k].kind = "query" /\ ~auth
        THEN Reject(c, k, NotAFunction, hasCallback)
        ELSE [c EXCEPT !.pc = "awaiting", !.at = k, !.issued = @ + 1]

\* Some authenticate() call has returned true.
SomeReturnedTrue == \E i \in 1 .. Len(auths) : auths[i].result = Some(TRUE)

\* A remote operation is called.
OpCall(op) ==
    /\ call.pc = "none"
    /\ call' = RunFrom([pc |-> "running", op |-> op, at |-> 0,
                         authAtCall |-> graphqlWithAuth,
                         trueAtCall |-> SomeReturnedTrue,
                         issued |-> 0, callbacks |-> 0, rejection |-> None,
                         outcome |-> [how |-> "none", what |-> "none",
                                      error |-> None]],
                        1, graphqlWithAuth, onAuthError)
    /\ UNCHANGED <<onAuthError, username, auths, codecVars, mergeVars,
                   itemVars, linkVars>>

\* The remote query the operation awaits resolves.
OpResolve ==
    /\ call.pc = "awaiting"
    /\ call' = RunFrom(call, call.at + 1, graphqlWithAuth, onAuthError)
    /\ UNCHANGED <<onAuthError, username, auths, codecVars, mergeVars,
                   itemVars, linkVars>>

\* The lookup the operation awaits resolves with null.
OpResolveNull ==
    /\ call.pc = "awaiting"
    /\ Operation(call.op).stages[call.at].lookup
    /\ call' = Finish(call, "returned", Operation(call.op).onFailure, None)
    /\ UNCHANGED <<onAuthError, username, auths, codecVars, mergeVars,
                   itemVars, linkVars>>

\* The remote query the operation awaits rejects with error.
OpReject(error) ==
    /\ call.pc = "awaiting"
    /\ Operation(call.op).stages[call.at].handler # "auth"
           => error = NetworkError
    /\ call' = [Reject(call, call.at, error, onAuthError)
                    EXCEPT !.rejection = Some(error)]
    /\ UNCHANGED <<onAuthError, username, auths, codecVars, mergeVars,
                   itemVars, linkVars>>

\* Some authenticate() call has not returned yet.
InFlight == \E i \in 1 .. Len(auths) : auths[i].pc # "done"

\* authenticate() is called: it awaits tokenProvider.getToken().  A call
\* records whether it ran beside another call (concurrent), whether another
\* call returned true while it was in flight (overlapped), and, as it
\* returns, what isAuthenticated() says (after) and whether it was this call
\* that took it from true to false (reset).
AuthCall ==
    /\ Len(auths) < MaxAuth
    /\ auths' = Append([j \in 1 .. Len(auths) |->
                           IF auths[j].pc # "done"
                           THEN [auths[j] EXCEPT !.concurrent = TRUE]
                           ELSE auths[j]],
                       [pc |-> "token", result |-> None,
                        concurrent |-> InFlight, overlapped |-> FALSE,
                        after |-> None, reset |-> FALSE])
    /\ UNCHANGED <<onAuthError, username, call, codecVars, mergeVars,
                   itemVars, linkVars>>

\* getToken() resolves: with no token the call returns false; with a token
\* graphqlWithAuth is set and VIEWER_QUERY is sent.
AuthToken(i, hasToken) ==
    /\ i \in 1 .. Len(auths)
    /\ auths[i].pc = "token"
    /\ IF hasToken
       THEN /\ graphqlWithAuth' = TRUE
            /\ auths' = [auths EXCEPT ![i].pc = "viewer"]
       ELSE /\ graphqlWithAuth' = graphqlWithAuth
            /\ auths' = [auths EXCEPT ![i].pc = "done",
                                      ![i].result = Some(FALSE),
                                      ![i].after = Some(graphqlWithAuth)]
    /\ UNCHANGED <<statusField, rawItems, fetched, onAuthError, username,
                   call, codecVars, mergeVars, linkVars>>

\* VIEWER_QUERY resolves: the username is kept and the call returns true;
\* or it rejects: graphqlWithAuth is reset to null and the call returns
\* false.  The calls in flight when one returns true are marked.
AuthViewer(i, ok) ==
    /\ i \in 1 .. Len(auths)
    /\ auths[i].pc = "viewer"
    /\ IF ok
       THEN /\ username' = Some(<< "al" >>)
            /\ graphqlWithAuth' = graphqlWithAuth
            /\ auths' = [j \in 1 .. Len(auths) |->
                            IF j = i
                            THEN [auths[j] EXCEPT
                                     !.pc = "done",
                                     !.result = Some(TRUE),
                                     !.after = Some(graphqlWithAuth)]
                            ELSE IF auths[j].pc # "done"
                            THEN [auths[j] EXCEPT !.overlapped = TRUE]
                            ELSE auths[j]]
       ELSE /\ username' = username
            /\ graphqlWithAuth' = FALSE
            /\ auths' = [auths EXCEPT ![i].pc = "done",
                                      ![i].result = Some(FALSE),
                                      ![i].after = Some(FALSE),
                                      ![i].reset = graphqlWithAuth]
    /\ UNCHANGED <<statusField, rawItems, fetched, onAuthError, call,
                   codecVars, mergeVars, linkVars>>

InitApi ==
    /\ onAuthError \in BOOLEAN
    /\ username = None
    /\ auths = << >>
    /\ call = NoCall
    /\ CodecIdle
    /\ MergeIdle
    /\ ItemsIdle
    /\ LinkIdle

NextApi ==
    \/ AuthCall
    \/ \E i \in 1 .. MaxAuth, hasToken \in BOOLEAN : AuthToken(i, hasToken)
    \/ \E i \in 1 .. MaxAuth, ok \in BOOLEAN : AuthViewer(i, ok)
    \/ \E op \in OpNames : OpCall(op)
    \/ OpResolve
    \/ OpResolveNull
    \/ \E error \in Payloads : OpReject(error)

SpecApi == InitApi /\ [][NextApi]_vars

(***************************************************************************)
(* Claims on src/src/github-api.ts.                                        *)
(***************************************************************************)

\* The call has ended by returning what.
CallReturned(what) ==
    /\ call.pc = "done"
    /\ call.outcome.how = "returned"
    /\ call.outcome.what = what

\* C21: every remote operation of GitHubAPI, and link, unlink and
\* getBranchForIssue of BranchLinker, invoked while isAuthenticated() is
\* false throws the 'Not authenticated' error and issues no remote query.
C21_NotAuthenticated ==
    (call.pc # "none" /\ ~call.authAtCall)
        => /\ call.pc = "done"
           /\ call.outcome.how = "threw"
           /\ call.outcome.what = "Not authenticated"
           /\ call.issued = 0

C21_Witness ==
    /\ call.pc = "done"
    /\ call.op = "unlink"
    /\ ~call.authAtCall
    /\ call.outcome.what = "Not authenticated"

\* The read operations C22 lists by name, and the write operations of
\* GitHubAPI.
ListReads ==
    {"getProjectViews", "getCollaborators", "getRecentIssues",
     "findIssuesWithLabel", "getIssueTypes"}

WriteOps ==
    {op \in OpNames \ {"link", "unlink"} : Operation(op).kind = "write"}

\* A remote query of an operation invoked once authenticated has rejected.
FailedOnceAuthenticated ==
    /\ call.pc = "done"
    /\ call.authAtCall
    /\ ~IsNone(call.rejection)

\* C22 as stated: once authenticated, a failing remote query makes the
\* listed list reads return an empty list, getIssueDetails return null and
\* every write operation return false.
C22_FailureCoerced ==
    FailedOnceAuthenticated
        => /\ call.op \in ListReads => CallReturned("[]")
           /\ call.op = "getIssueDetails" => CallReturned("null")
           /\ call.op \in WriteOps => CallReturned("false")

\* C22 as the code has it: the same, but createIssue and addToProject, the
\* two write operations that return the created object, return null.
C22_FailureCoercedByResultType ==
    FailedOnceAuthenticated
        => /\ call.op \in ListReads => CallReturned("[]")
           /\ call.op = "getIssueDetails" => CallReturned("null")
           /\ call.op \in {"createIssue", "addToProject"} => CallReturned("null")
           /\ call.op \in WriteOps \ {"createIssue", "addToProject"}
                 => CallReturned("false")

C22_Witness ==
    /\ FailedOnceAuthenticated
    /\ call.op = "createIssue"
    /\ call.issued = 2
    /\ CallReturned("null")

\* Some entry of the payload's errors list satisfies Test.
SomeEntry(p, Test(_)) ==
    /\ p.isObject
    /\ p.hasErrors
    /\ ~IsNone(p.errors)
    /\ \E i \in 1 .. Len(Val(p.errors)) : Test(Val(p.errors)[i])

IsScopeEntry(e) == e.type = Some("INSUFFICIENT_SCOPES")

\* What getProjects threw is an AuthError of the given type.
ThrewAuthError(type) ==
    /\ call.outcome.how = "threw"
    /\ ~IsNone(call.outcome.error)
    /\ "authError" \in DOMAIN Val(call.outcome.error)
    /\ Val(call.outcome.error).type = type
    /\ type \in {"INSUFFICIENT_SCOPES", "SSO_REQUIRED", "TOKEN_EXPIRED",
                 "UNKNOWN"}

\* C23: a remote failure in getProjects with an INSUFFICIENT_SCOPES entry
\* throws an AuthError of that type with requiredScopes set, even beside
\* an SSO/SAML message; one whose message mentions SSO or SAML throws
\* SSO_REQUIRED; the callback, if supplied, is invoked exactly once for a
\* classified error; an unclassified failure is rethrown unchanged and the
\* callback is not invoked.
C23_Classified ==
    (call.pc = "done" /\ call.op = "getProjects" /\ ~IsNone(call.rejection))
        => LET p == Val(call.rejection)
           IN  IF SomeEntry(p, IsScopeEntry)
               THEN /\ ThrewAuthError("INSUFFICIENT_SCOPES")
                    /\ ~IsNone(Val(call.outcome.error).requiredScopes)
                    /\ call.callbacks = IF onAuthError THEN 1 ELSE 0
               ELSE IF SomeEntry(p, MentionsSso)
               THEN /\ ThrewAuthError("SSO_REQUIRED")
                    /\ call.callbacks = IF onAuthError THEN 1 ELSE 0
               ELSE /\ call.outcome.how = "threw"
                    /\ call.outcome.error = Some(p)
                    /\ call.callbacks = 0

C23_Witness ==
    /\ call.pc = "done"
    /\ call.op = "getProjects"
    /\ ~IsNone(call.rejection)
    /\ SomeEntry(Val(call.rejection), IsScopeEntry)
    /\ SomeEntry(Val(call.rejection), MentionsSso)
    /\ Val(call.rejection).errors[1][1].type # Some("INSUFFICIENT_SCOPES")
    /\ ThrewAuthError("INSUFFICIENT_SCOPES")
    /\ call.callbacks = 1

\* C28: in a sequence of authenticate() calls, none running beside
\* another, a call that returns false leaves isAuthenticated() false.
C28_FalseMeansNotAuthenticated ==
    \A i \in 1 .. Len(auths) :
        (/\ \A j \in 1 .. Len(auths) : ~auths[j].concurrent
         /\ auths[i].result = Some(FALSE))
            => auths[i].after = Some(FALSE)

\* C29: a remote operation passes the guard only if some authenticate()
\* call had returned true, and no authenticate() call that was in flight
\* when another returned true takes isAuthenticated() back to false.
C29_GuardFollowsTrue ==
    /\ (call.pc # "none" /\ call.authAtCall) => call.trueAtCall
    /\ \A i \in 1 .. Len(auths) : auths[i].overlapped => ~auths[i].reset

----------------------------------------------------------------------------
(* src/src/branch-linker.ts: BranchLinker, whose calls read the issue     *)
(* body through getIssueDetails and write it through updateIssueBody,     *)
(* beside other calls and beside another editor of the same issue.        *)

\* The bodies the issue starts with: plain text, a marker, a marker with
\* a blank for its branch, a marker opening that is never closed, and two
\* markers.
LinkerBodies ==
    {<< "x" >>,
     BranchTag(<< "a" >>),
     << OPEN, SP, KEYW, SP, CLOSE >>,
     << OPEN, KEYW >>,
     BranchTag(<< "a" >>) \o BranchTag(<< "a" >>)}

\* The body another editor saves.
EditedBodies == {<< "edited" >>}

LinkerOps ==
    {[op |-> "link", branch |-> b] : b \in Branches}
        \cup {[op |-> "unlink", branch |-> << >>]}

\* A body computed from the body stored as the write is made.
BodyToWrite_fresh(op, branch, readBody, storedNow) ==
    IF op = "link" THEN setBranchLinkInBody(storedNow, branch)
    ELSE removeBranchLinkFromBody(storedNow)

\* The body link and unlink hand to updateIssueBody: computed from
\* details.body, the body their read returned.
BodyToWrite(op, branch, readBody, storedNow) ==
    IF op = "link" THEN setBranchLinkInBody(readBody, branch)
    ELSE removeBranchLinkFromBody(readBody)

\* unlink: const currentBranch = parseBranchLink(details.body);
\* if (!currentBranch) return false.
UnlinkStops(body) == Falsy(parseBranchLink(body))

\* The call ends.
LinkerDone(l, result) == [l EXCEPT !.pc = "done", !.result = result]

\* link or unlink is called: its getIssueDetails throws if the API
\* is not authenticated, and sends its query otherwise.
LinkerCall(o) ==
    /\ Len(linkers) < MaxLinkers
    /\ LET l == [op |-> o.op, branch |-> o.branch, pc |-> "read",
                 details |-> None, readAt |-> 0, result |-> "pending",
                 updates |-> 0, flag |-> "none"]
       IN  linkers' = Append(linkers,
                             IF graphqlWithAuth THEN l
                             ELSE LinkerDone(l, "threw"))
    /\ UNCHANGED <<stored, writes, codecVars, mergeVars, itemVars, apiVars>>

\* getIssueDetails resolves: with null (the query rejected, or there is no
\* such issue) or with the details of the issue, and the method goes on to
\* its return or to its updateIssueBody call.
LinkerRead(i, ok) ==
    /\ i \in 1 .. Len(linkers)
    /\ linkers[i].pc = "read"
    /\ LET l == linkers[i]
           details == IF ok THEN stored ELSE None
           r == [l EXCEPT !.details = details, !.readAt = Len(writes)]
       IN  linkers' =
             [linkers EXCEPT ![i] =
                 IF l.op = "link"
                 THEN IF IsNone(details) THEN LinkerDone(r, "false")
                      ELSE [r EXCEPT !.pc = "write"]
                 ELSE IF IsNone(details) THEN LinkerDone(r, "false")
                      ELSE IF UnlinkStops(details) THEN LinkerDone(r, "false")
                      ELSE [r EXCEPT !.pc = "write"]]
    /\ UNCHANGED <<stored, writes, codecVars, mergeVars, itemVars, apiVars>>

\* updateIssueBody, called with the new body, resolves: true once the
\* body is stored, false if one of its queries rejected.
LinkerWrite(i, ok) ==
    /\ i \in 1 .. Len(linkers)
    /\ linkers[i].pc = "write"
    /\ LET l == linkers[i]
           newBody == BodyToWrite(l.op, l.branch, l.details, stored)
           u == [l EXCEPT !.updates = @ + 1,
                          !.flag = IF ok THEN "true" ELSE "false"]
       IN  /\ linkers' = [linkers EXCEPT ![i] = LinkerDone(u, u.flag)]
           /\ IF ok
              THEN /\ stored' = Some(newBody)
                   /\ writes' = Append(writes, [by |-> i, body |-> newBody])
              ELSE UNCHANGED <<stored, writes>>
    /\ UNCHANGED <<codecVars, mergeVars, itemVars, apiVars>>

\* The number of writes another editor has made.
Edits == Cardinality({k \in 1 .. Len(writes) : writes[k].by = 0})

\* Another editor of the issue (a person, another program) saves a body
\* while a call is between its read and its write.
Edit(b) ==
    /\ ~IsNone(stored)
    /\ \E i \in 1 .. Len(linkers) : linkers[i].pc = "write"
    /\ Edits < MaxEdits
    /\ b # Val(stored)
    /\ stored' = Some(b)
    /\ writes' = Append(writes, [by |-> 0, body |-> b])
    /\ UNCHANGED <<linkers, codecVars, mergeVars, itemVars, apiVars>>

InitLinker ==
    /\ stored \in {None} \cup {Some(b) : b \in LinkerBodies}
    /\ linkers = << >>
    /\ writes = << >>
    /\ graphqlWithAuth \in BOOLEAN
    /\ statusField = None
    /\ rawItems = << >>
    /\ fetched = None
    /\ CodecIdle
    /\ MergeIdle
    /\ ApiIdle

NextLinker ==
    \/ \E o \in LinkerOps : LinkerCall(o)
    \/ \E i \in 1 .. MaxLinkers, ok \in BOOLEAN : LinkerRead(i, ok)
    \/ \E i \in 1 .. MaxLinkers, ok \in BOOLEAN : LinkerWrite(i, ok)
    \/ \E b \in EditedBodies : Edit(b)

\* BranchLinker calls on one issue, interleaved with each other and with
\* another editor.
SpecLinker == InitLinker /\ [][NextLinker]_vars

----------------------------------------------------------------------------
(* Claims about BranchLinker. *)

\* What a link or unlink call makes of the body it read.
FromOwnRead(l) ==
    IF l.op = "link" THEN setBranchLinkInBody(l.details, l.branch)
    ELSE removeBranchLinkFromBody(l.details)

\* C24: the body a link or unlink call writes is computed from the body its
\* own getIssueDetails read returned and from nothing else, and it replaces
\* the stored body whole, whatever was stored since the read.  (Stated of
\* the latest write: every write is the latest one in the state it leads
\* to.)
C24_WritesFromOwnRead ==
    writes # << >>
        => LET w == writes[Len(writes)]
           IN  /\ stored = Some(w.body)
               /\ w.by # 0 => w.body = FromOwnRead(linkers[w.by])

\* The lost update: another editor saved a body after the call's read, and
\* the call's write put back what it had computed from the older body.
C24_Witness ==
    \E k \in 1 .. Len(writes) - 1 :
        LET i == writes[k + 1].by
        IN  /\ writes[k].by = 0
            /\ i # 0
            /\ k = Len(writes) - 1
            /\ linkers[i].readAt < k
            /\ linkers[i].op = "link"
            /\ writes[k].body = << "edited" >>
            /\ linkers[i].details = Some(BranchTag(<< "a" >>))
            /\ stored = Some(BranchTag(linkers[i].branch))

\* The body the first read of the calls returned is the body the issue
\* started with.
StartedWithAtMostOne ==
    \A i \in 1 .. Len(linkers) :
        linkers[i].readAt = 0
            => CountMarkers(Str(linkers[i].details)) <= 1

\* Two or more link calls with different branches, and nothing else, have
\* all read and written successfully.
OnlyLinksAllDone ==
    /\ Len(linkers) >= 2
    /\ \A i \in 1 .. Len(linkers) :
          /\ linkers[i].op = "link"
          /\ linkers[i].pc = "done"
          /\ linkers[i].result = "true"
    /\ \A i, j \in 1 .. Len(linkers) :
          i # j => linkers[i].branch # linkers[j].branch
    /\ Edits = 0

\* C26: after two or more link calls with different branches, interleaved
\* in any way, all succeeding, on a body that started with at most one
\* marker, the stored body has exactly one marker and it names the branch
\* of the call that wrote last.
C26_LastWriterWins ==
    (OnlyLinksAllDone /\ StartedWithAtMostOne)
        => /\ CountMarkers(Val(stored)) = 1
           /\ parseBranchLink(stored)
                 = Some(linkers[writes[Len(writes)].by].branch)

\* C26 for branches without "$" and for bodies that do not hold a marker
\* opening that is never closed.
C26_LastWriterWinsPlain ==
    (/\ OnlyLinksAllDone
     /\ StartedWithAtMostOne
     /\ \A i \in 1 .. Len(linkers) :
           /\ linkers[i].branch # << "rel", "$1" >>
           /\ linkers[i].readAt = 0
                 => linkers[i].details # Some(<< OPEN, KEYW >>))
        => /\ CountMarkers(Val(stored)) = 1
           /\ parseBranchLink(stored)
                 = Some(linkers[writes[Len(writes)].by].branch)

\* C27: link returns false without a write when getIssueDetails returns
\* null; unlink returns false without a write when the issue is unavailable
\* or its body has no marker; in every other case exactly one
\* updateIssueBody call is made and its flag is returned.
C27_OneWriteOrNone ==
    \A i \in 1 .. Len(linkers) :
        LET l == linkers[i]
        IN  (l.pc = "done" /\ l.result # "threw"
                 /\ l.op \in {"link", "unlink"})
                => IF \/ IsNone(l.details)
                      \/ (/\ l.op = "unlink"
                          /\ CountMarkers(Val(l.details)) = 0)
                   THEN l.result = "false" /\ l.updates = 0
                   ELSE l.updates = 1 /\ l.result = l.flag

\* C27 for bodies whose marker names a branch.
C27_OneWriteOrNoneNamed ==
    \A i \in 1 .. Len(linkers) :
        LET l == linkers[i]
        IN  (l.pc = "done" /\ l.result # "threw"
                 /\ l.op \in {"link", "unlink"}
                 /\ (~IsNone(l.details)
                        => parseBranchLink(l.details) # Some(<< >>)))
                => IF \/ IsNone(l.details)
                      \/ (/\ l.op = "unlink"
                          /\ CountMarkers(Val(l.details)) = 0)
                   THEN l.result = "false" /\ l.updates = 0
                   ELSE l.updates = 1 /\ l.result = l.flag

====
